---- MODULE Spec2Model ----
(***************************************************************************)
(* Shared-state engine of the Vela agents: the distributed lock leases of  *)
(* TreasuryAgent, the write queue and the nested transactions of           *)
(* PostgresMemoryManager, and the ExtendedMemoryManager wrapper through    *)
(* which the agents reach the store.                                       *)
(***************************************************************************)
EXTENDS Integers, Sequences, FiniteSets, TLC

(* ------------------------------ bounds --------------------------------- *)
NumAgents == 2
NumKeys == 1
MaxTime == 2
MaxTtl == 2
NumCallers == 3
NumEngineCallers == 2
NumQueueIds == 1
NumIds == 2
MaxLevel == 3
MaxSavepoints == 2
NumProcs == 2
MaxCommits == 3
NumRooms == 2
NumUsers == 1
NumContents == 2
MaxLimit == 2
MaxVersion == 2
MaxEmbedCalls == 2
NumCopies == 2
MaxTransfers == 2
NumHandlers == 3

Agents == 1..NumAgents
Keys == 1..NumKeys
Times == 0..MaxTime
Ttls == 1..MaxTtl
Callers == 1..NumCallers
\* The callers that begin, commit and roll back at the same time
EngineCallers == 1..NumEngineCallers
\* The memory ids the writers of the write queue use
QueueIds == 1..NumQueueIds
MemIds == 1..NumIds
Procs == 1..NumProcs
Rooms == 1..NumRooms
Users == 1..NumUsers
Contents == 1..NumContents
Limits == 0..MaxLimit
\* content.metadata.version as the writer gives it; 0 when it gives none
Versions == 0..MaxVersion
Handlers == 1..NumHandlers

VARIABLES
    memories,   \* rows of the live memories table (committed)
    now,        \* the clock read by Date.now()
    pc,         \* pc[a]: position of agent a inside acquireDistributedLock
    call,       \* call[a]: locals of agent a's current/last acquire call
    ret,        \* ret[a]: what the last acquire call of a returned
    held,       \* held[a]: the lease descriptor a got and has not released yet
    concur,     \* concur[a]: agents whose acquire overlapped a's current call
    lastRel,    \* lastRel[k]: lease validly released on k, no acquire since
    engine,     \* fields of the PostgresMemoryManager instance
    wrapperLevel, \* _transactionLevel of the runtime's ExtendedMemoryManager
    session,    \* the backend's side of the connection: open transaction, savepoints
    cpc,        \* cpc[c]: where asynchronous caller c is suspended
    ccall,      \* ccall[c]: the call caller c is inside
    entered,    \* entered[n]: savepoint created when the engine entered level n
    beginsOpen, \* BEGIN statements issued since the last final COMMIT/ROLLBACK
    c6step,     \* progress through begin; create; begin; create; rollback; commit
    lastCall,   \* the last call made with no transaction open, and how it returned
    arrivals,   \* the callers of enqueueWrite that have not started their operation, in the order they called
    ready,      \* the microtask queue: the callers whose `await this.writeQueue` has settled, in the order it settled
    rowVal,     \* committed content of the row the processes read and modify
    rowLock,    \* process whose open transaction holds the row's lock, 0 if none
    rtx,        \* rtx[p]: the transaction process p has open on its own connection
    commits,    \* read-modify-write transactions committed so far
    table,      \* rows of the memories table behind the MemoryManager, in query order
    firstMem,   \* firstMem[id]: the memory of the first createMemory with that id
    lastOp,     \* the MemoryManager call that returned last: arguments and result
    busKind,    \* which ExtendedMemoryManager class wraps the store ("none" before construction)
    subs,       \* memorySubscriptions: per type, whether the map has the key and its Set in insertion order
    busLog,     \* the wrapper call that returned last: what it emitted, invoked and handed to the sync manager
    made,       \* the mutations made in this process so far
    broker,     \* the envelopes handed to the sync manager and not delivered yet
    remoteSeen, \* the mutations re-driven through the bus of the other process
    vlive,      \* the live memories table, by id: room and whether the content kind is versioned
    vrows,      \* the versions table: the set of <<id, version>> keys
    vpc,        \* "main" between the two INSERTs of a versioned createMemoryInternal
    vcall,      \* the memory that createMemoryInternal is inserting
    vlast,      \* the engine call that ended last
    emem,       \* emem[id]: the Memory object with that id that callers hold
    embedCalls, \* calls made to the embedding provider so far
    elast,      \* the addEmbeddingToMemory call that returned last
    fcommitted, \* ids of the rows the backend holds committed
    ftx,        \* per open engine transaction level, the ids written at that level
    fwrap,      \* _transactionLevel of the utils/runtime.ts wrapper
    fpc,        \* where the wrapper's createMemory is suspended
    fcall,      \* the memory of that createMemory and the callbacks it has still to await
    ftrace,     \* the steps of the wrapper's current or last createMemory, in order
    fseen,      \* ids of the memories handed to a local subscriber
    fsent,      \* ids of the memories handed to the sync manager in an envelope
    hswap,      \* hswap[a]: where agent a's handleSwapRequest stands
    running,    \* the executeSwapWithRoute operations in progress, as <<agent, key>>
    tmark,      \* tmark[copy]: lastProcessedMessageId on that copy of a transfer memory, 0 when unset
    tsent,      \* tsent[id]: SOL transfers sent for the transfer_requested memory id
    tlast,      \* the handleTransfer call that returned last
    ocall       \* ocall[c]: caller c's createMemory on the MemoryManager: position, id, what its existence check saw, how it returned

lockVars == <<memories, now, pc, call, ret, held, concur, lastRel>>
leaseVars == <<now, pc, call, ret, held, concur, lastRel>>
txVars == <<engine, wrapperLevel, session, cpc, ccall, entered,
            beginsOpen, c6step, lastCall, arrivals, ready>>

rowVars == <<rowVal, rowLock, rtx, commits>>
storeVars == <<table, firstMem, lastOp>>
busVars == <<busKind, subs, busLog>>
syncVars == <<made, broker, remoteSeen>>
versionVars == <<vlive, vrows, vpc, vcall, vlast>>
embedVars == <<emem, embedCalls, elast>>
flowVars == <<fcommitted, ftx, fwrap, fpc, fcall, ftrace, fseen, fsent>>
swapVars == <<hswap, running>>
transferVars == <<tmark, tsent, tlast>>
laterVars == <<versionVars, embedVars, flowVars, swapVars, transferVars, ocall>>

\* What the lease actions and the transaction actions leave alone
otherThanLock == <<txVars, rowVars, storeVars, busVars, syncVars, laterVars>>
otherThanTx == <<leaseVars, rowVars, storeVars, busVars, syncVars, laterVars>>
otherThanRow == <<lockVars, txVars, storeVars, busVars, syncVars, laterVars>>
otherThanStore == <<lockVars, txVars, rowVars, busVars, syncVars, laterVars>>

vars == <<lockVars, txVars, rowVars, storeVars, busVars, syncVars, laterVars>>
otherThanVersion == <<lockVars, txVars, rowVars, storeVars, busVars, syncVars, embedVars, flowVars, swapVars, transferVars, ocall>>
otherThanEmbed == <<lockVars, txVars, rowVars, storeVars, busVars, syncVars, versionVars, flowVars, swapVars, transferVars, ocall>>
otherThanFlow == <<lockVars, txVars, rowVars, storeVars, syncVars, versionVars, embedVars, swapVars, transferVars, ocall>>
otherThanTransfer == <<lockVars, txVars, rowVars, storeVars, busVars, syncVars, versionVars, embedVars, flowVars, swapVars, ocall>>
otherThanSwap == <<lockVars, txVars, rowVars, storeVars, busVars, syncVars, versionVars, embedVars, flowVars, transferVars, ocall>>

(* --------------------------- identifiers ------------------------------- *)
\* The strings `lock-${key}-${suffix}`: the suffix is a decimal number
\* (Date.now()) or the text of a UUID.
LockString(key, kind, val) == [key |-> key, kind |-> kind, val |-> val]

UuidSpan == NumKeys * (MaxTime + 1)

\* stringToUuid is a hash of its argument: distinct strings give distinct
\* UUIDs.  UUIDs are numbered; 0 is no UUID.
stringToUuid(s) ==
    IF s.kind = "num"
    THEN 1 + (s.key - 1) * (MaxTime + 1) + s.val
    ELSE UuidSpan + 1 + (s.key - 1) * UuidSpan + (s.val - 1)

(* ------------------------------ rows ----------------------------------- *)
LockRow(id, key, holder, expiresAt) ==
    [id |-> id, type |-> "distributed_lock", key |-> key, holder |-> holder,
     expiresAt |-> expiresAt, lockState |-> "active", agentId |-> holder]

\* idx_active_distributed_locks: the rows the partial unique index covers
IsActiveLock(r) == r.type = "distributed_lock" /\ r.lockState = "active"

\* An INSERT is rejected with "duplicate key value violates unique constraint"
\* by the primary key on id alone
PrimaryKeyViolation(rows, r) == \E x \in rows : x.id = r.id

\* An INSERT is rejected by the primary key on id or by the partial unique
\* index on content->>'key' of active distributed_lock rows.
UniqueViolation(rows, r) ==
    \/ \E x \in rows : x.id = r.id
    \/ IsActiveLock(r) /\ \E x \in rows : IsActiveLock(x) /\ x.key = r.key

\* databaseAdapter.getMemoryById
AdapterGetMemoryById(rows, id) == {r \in rows : r.id = id}

\* MemoryManager.getMemoryById: rows of another agent are hidden
GetMemoryById(rows, id, agent) == {r \in rows : r.id = id /\ r.agentId = agent}

\* ExtendedMemoryManager.getMemoryWithLock of the agent runtime
GetMemoryWithLock(rows, id, agent) == GetMemoryById(rows, id, agent)

\* ExtendedMemoryManager.removeMemoriesWhere of the agent runtime: logs a
\* warning and removes nothing.
removeMemoriesOfType(rows, key, t) == {r \in rows : r.type # "distributed_lock"}
removeMemoriesWhere(rows, key, t) == rows

NoCall == [key |-> 0, now |-> 0, expiresAt |-> 0, lockId |-> 0,
           free |-> FALSE, afterRel |-> FALSE, afterExp |-> 0, blocked |-> 0]
NoLease == [key |-> 0, holder |-> 0, expiresAt |-> 0, lockId |-> 0, version |-> 0]
\* What is left of a call's locals once acquire has returned
Returned(c) == [c EXCEPT !.now = 0, !.expiresAt = 0, !.lockId = 0]

Lease(a, c) == [key |-> c.key, holder |-> a, expiresAt |-> c.expiresAt,
                lockId |-> c.lockId, version |-> 1]

ActiveFor(rows, k) == {r \in rows : IsActiveLock(r) /\ r.key = k}

InFlight == {a \in Agents : pc[a] # "idle"}

\* The holder of the lease stored in row r got it from acquire and has not
\* called release since.
NeverReleased(r) == \E a \in Agents : held[a].lockId = r.id /\ r.holder = a

(* ------------------------- the relational backend --------------------- *)
NoteRow(id) ==
    [id |-> id, type |-> "note", key |-> 0, holder |-> 0,
     expiresAt |-> 0, lockState |-> "none", agentId |-> 0]

NoRow == NoteRow(0)

Stmt(op, sp, row) == [op |-> op, sp |-> sp, row |-> row]

\* The connection outside a transaction block
ClosedSession == [open |-> FALSE, aborted |-> FALSE, working |-> {}, savepoints |-> <<>>]

\* Index of the most recent savepoint called name, 0 when there is none
LastSavepoint(sps, name) ==
    IF \E i \in 1..Len(sps) : sps[i].name = name
    THEN CHOOSE i \in 1..Len(sps) :
            /\ sps[i].name = name
            /\ \A j \in (i + 1)..Len(sps) : sps[j].name # name
    ELSE 0

\* A statement that raises: inside a transaction block the block is aborted.
Failed(rows, s) ==
    [ok |-> FALSE, rows |-> rows,
     s |-> IF s.open THEN [s EXCEPT !.aborted = TRUE] ELSE s]

Done(rows, s) == [ok |-> TRUE, rows |-> rows, s |-> s]

\* The table a statement sees: the transaction's own view, or the committed rows
Visible(rows, s) == IF s.open THEN s.working ELSE rows

\* What adapter.query(statement) does to the committed rows and to the
\* connection, and whether it resolves (ok) or rejects.
Exec(st, rows, s) ==
    CASE st.op = "BEGIN" ->
            IF s.open
            THEN IF s.aborted THEN Failed(rows, s) ELSE Done(rows, s)
            ELSE Done(rows, [open |-> TRUE, aborted |-> FALSE,
                             working |-> rows, savepoints |-> <<>>])
      [] st.op = "SAVEPOINT" ->
            IF s.open /\ ~ s.aborted
            THEN Done(rows, [s EXCEPT !.savepoints =
                        Append(@, [name |-> st.sp, snap |-> s.working])])
            ELSE Failed(rows, s)
      [] st.op = "RELEASE SAVEPOINT" ->
            LET i == LastSavepoint(s.savepoints, st.sp)
            IN IF s.open /\ ~ s.aborted /\ i > 0
               THEN Done(rows, [s EXCEPT !.savepoints = SubSeq(@, 1, i - 1)])
               ELSE Failed(rows, s)
      [] st.op = "ROLLBACK TO SAVEPOINT" ->
            LET i == LastSavepoint(s.savepoints, st.sp)
            IN IF s.open /\ i > 0
               THEN Done(rows, [s EXCEPT !.working = s.savepoints[i].snap,
                                         !.savepoints = SubSeq(@, 1, i),
                                         !.aborted = FALSE])
               ELSE Failed(rows, s)
      [] st.op = "COMMIT" ->
            IF s.open
            THEN Done(IF s.aborted THEN rows ELSE s.working, ClosedSession)
            ELSE Done(rows, s)
      [] st.op = "ROLLBACK" -> Done(rows, ClosedSession)
      [] st.op = "INSERT" ->
            IF s.aborted \/ UniqueViolation(Visible(rows, s), st.row)
            THEN Failed(rows, s)
            ELSE IF s.open
                 THEN Done(rows, [s EXCEPT !.working = @ \cup {st.row}])
                 ELSE Done(rows \cup {st.row}, s)
      [] st.op = "DELETE" ->
            IF s.aborted
            THEN Failed(rows, s)
            ELSE IF s.open
                 THEN Done(rows, [s EXCEPT !.working = {r \in @ : r.id # st.row.id}])
                 ELSE Done({r \in rows : r.id # st.row.id}, s)

(* ----------------- PostgresMemoryManager: transaction levels ----------- *)
NewEngine ==
    [transactionLevel |-> 0, savepointCounter |-> 0, isInTransaction |-> FALSE,
     currentTransaction |-> FALSE, writeQueue |-> 0]

Issue(e, st, thrown) == [e |-> e, st |-> st, thrown |-> thrown]

\* The savepoint a nested begin creates: sp_${++this.savepointCounter}
SavepointToCreate(e) == e.savepointCounter + 1

\* A nested commit or rollback that decrements before it names the savepoint:
\* sp_${--this.savepointCounter}
SavepointToLeavePreDecrement(e) == e.savepointCounter - 1

\* The savepoint a nested commit or rollback names: sp_${this.savepointCounter--}
SavepointToLeave(e) == e.savepointCounter

\* beginTransactionInternal up to its await
BeginIssue(e) ==
    IF e.transactionLevel = 0
    THEN Issue(e, Stmt("BEGIN", 0, NoRow), FALSE)
    ELSE Issue([e EXCEPT !.savepointCounter = @ + 1],
               Stmt("SAVEPOINT", SavepointToCreate(e), NoRow), FALSE)

\* beginTransactionInternal after its await
BeginResume(e, op, ok) ==
    IF ~ ok THEN e
    ELSE LET e1 == IF op = "BEGIN"
                   THEN [e EXCEPT !.currentTransaction = TRUE, !.isInTransaction = TRUE]
                   ELSE e
         IN [e1 EXCEPT !.transactionLevel = @ + 1]

\* commitTransactionInternal up to its await
CommitIssue(e) ==
    IF e.transactionLevel = 0
    THEN Issue(e, Stmt("NONE", 0, NoRow), TRUE)
    ELSE IF e.transactionLevel - 1 = 0
         THEN Issue([e EXCEPT !.transactionLevel = @ - 1],
                    Stmt("COMMIT", 0, NoRow), FALSE)
         ELSE Issue([e EXCEPT !.transactionLevel = @ - 1, !.savepointCounter = @ - 1],
                    Stmt("RELEASE SAVEPOINT", SavepointToLeave(e), NoRow), FALSE)

\* commitTransactionInternal after its await
CommitResume(e, op, ok) ==
    IF ok /\ op = "COMMIT"
    THEN [e EXCEPT !.currentTransaction = FALSE, !.isInTransaction = FALSE,
                   !.savepointCounter = 0]
    ELSE e

\* rollbackTransactionInternal up to its await
RollbackIssue(e) ==
    IF e.transactionLevel = 0
    THEN Issue(e, Stmt("NONE", 0, NoRow), TRUE)
    ELSE IF e.transactionLevel = 1
         THEN Issue(e, Stmt("ROLLBACK", 0, NoRow), FALSE)
         ELSE Issue([e EXCEPT !.savepointCounter = @ - 1],
                    Stmt("ROLLBACK TO SAVEPOINT", SavepointToLeave(e), NoRow), FALSE)

\* rollbackTransactionInternal after its await
RollbackResume(e, op, ok) ==
    IF ~ ok THEN e
    ELSE LET e1 == IF op = "ROLLBACK"
                   THEN [e EXCEPT !.currentTransaction = FALSE,
                                  !.isInTransaction = FALSE, !.savepointCounter = 0]
                   ELSE e
         IN [e1 EXCEPT !.transactionLevel = @ - 1]

TxIssue(op, e) ==
    CASE op = "begin" -> BeginIssue(e)
      [] op = "commit" -> CommitIssue(e)
      [] op = "rollback" -> RollbackIssue(e)

TxResume(op, e, stmtOp, ok) ==
    CASE op = "begin" -> BeginResume(e, stmtOp, ok)
      [] op = "commit" -> CommitResume(e, stmtOp, ok)
      [] op = "rollback" -> RollbackResume(e, stmtOp, ok)

(* ------------------------------ callers -------------------------------- *)
Apis == {"engine", "wrapper"}
TxOps == {"begin", "commit", "rollback"}
WriteOps == {"create", "remove"}
LockReadOps == {"getMemoryWithLock", "getMemoriesWithLock"}

NoCCall ==
    [api |-> "none", op |-> "none", id |-> 0, txop |-> "none", stmt |-> "NONE",
     sp |-> 0, from |-> 0, wfrom |-> 0, inTx |-> FALSE, ok |-> TRUE,
     awaited |-> 0, viaQueue |-> FALSE]

NoLastCall ==
    [api |-> "none", op |-> "none", inTx |-> FALSE, ok |-> TRUE,
     moved |-> FALSE, same |-> TRUE]

AllIdle == \A c \in Callers : cpc[c] = "idle"

\* The caller of the runs in which every call returns before the next starts
SeqCaller == CHOOSE c \in Callers : \A d \in Callers : c <= d

\* The memories a caller can pass to createMemory
Mem(id, room, user, agent, content, emb) ==
    [id |-> id, roomId |-> room, userId |-> user, agentId |-> agent,
     content |-> content, embedding |-> emb]

NoMem == Mem(0, 0, 0, 0, 0, 0)

Mems ==
    {Mem(id, room, user, agent, content, emb) :
        id \in MemIds, room \in Rooms, user \in Users, agent \in Agents,
        content \in Contents, emb \in {0, 1}}

\* this.runtime.agentId of the MemoryManager under study
ThisAgent == CHOOSE a \in Agents : \A b \in Agents : a <= b

NoOp ==
    [op |-> "none", api |-> "none", ok |-> TRUE, mem |-> NoMem, existed |-> FALSE,
     room |-> 0, limit |-> 0, items |-> <<>>, hasMore |-> FALSE, nextCursor |-> 0,
     cursor |-> 0]

\* The two ExtendedMemoryManager classes: the one of utils/runtime.ts, which
\* SolanaAgentRuntime builds, and the one of shared/memory
BusKinds == {"runtime", "shared"}

\* The event names the handlers of the model subscribe to
SubTypes == {"note"}

\* content.type of a memory: the string "note", or not a string
ContentTypes == {"note", "untyped"}

\* An id the live table has no row for
NoLive == [present |-> FALSE, room |-> 0, versioned |-> FALSE]

NoVCall == [id |-> 0, room |-> 0, versioned |-> FALSE, version |-> 0]

NoVLast == [op |-> "none", ok |-> TRUE]

\* The length addEmbeddingToMemory accepts for an embedding
EmbeddingLength == 1536
\* Memory.embedding: unset (undefined), or a value with its Array.isArray and
\* length; gen is the provider call that produced it, 0 for a caller's own value
NoEmbedding == [set |-> FALSE, isArray |-> FALSE, length |-> 0, gen |-> 0]
Texts == {"", "hello"}
NoEMem == [present |-> FALSE, text |-> "", embedding |-> NoEmbedding]
NoELast ==
    [op |-> "none", mgr |-> "none", id |-> 0, ok |-> TRUE, text |-> "",
     before |-> NoEmbedding, callsBefore |-> 0]

\* A type the subscription map has no key for
NoEntry == [present |-> FALSE, cbs |-> <<>>]

NoBusLog ==
    [op |-> "none", type |-> "none", h |-> 0, id |-> 0, ok |-> TRUE,
     done |-> FALSE, emitted |-> <<>>, invoked |-> <<>>, envelopes |-> <<>>]

\* A process with no transaction open
NoRowTx == [pc |-> "idle", api |-> "none", read |-> 0, pending |-> 0]

\* The sequence begin; create(1); begin; create(2); rollback; commit issued
\* through the store wrapper: the operation expected at each position.
Script ==
    << [op |-> "begin", id |-> 0],
       [op |-> "create", id |-> 1],
       [op |-> "begin", id |-> 0],
       [op |-> "create", id |-> 2],
       [op |-> "rollback", id |-> 0],
       [op |-> "commit", id |-> 0] >>

ScriptLen == Len(Script)

\* Position in the script after one more call; -1 once the run has left it.
Advance(step, api, op, id) ==
    IF /\ step >= 0
       /\ step < ScriptLen
       /\ api = "wrapper"
       /\ Script[step + 1] = [op |-> op, id |-> id]
    THEN step + 1
    ELSE -1

(* ------------------------------ Init ----------------------------------- *)
Init ==
    /\ memories = {}
    /\ now = 0
    /\ pc = [a \in Agents |-> "idle"]
    /\ call = [a \in Agents |-> NoCall]
    /\ ret = [a \in Agents |-> "none"]
    /\ held = [a \in Agents |-> NoLease]
    /\ concur = [a \in Agents |-> {}]
    /\ lastRel = [k \in Keys |-> NoLease]
    /\ engine = NewEngine
    /\ wrapperLevel = 0
    /\ session = ClosedSession
    /\ cpc = [c \in Callers |-> "idle"]
    /\ ccall = [c \in Callers |-> NoCCall]
    /\ entered = [n \in 1..(MaxLevel + 1) |-> 0]
    /\ beginsOpen = 0
    /\ c6step = 0
    /\ lastCall = NoLastCall
    /\ arrivals = <<>>
    /\ ready = <<>>
    /\ rowVal = 0
    /\ rowLock = 0
    /\ rtx = [p \in Procs |-> NoRowTx]
    /\ commits = 0
    /\ table = <<>>
    /\ firstMem = [id \in MemIds |-> NoMem]
    /\ lastOp = NoOp
    /\ busKind = "none"
    /\ subs = [t \in SubTypes |-> NoEntry]
    /\ busLog = NoBusLog
    /\ made = {}
    /\ broker = {}
    /\ remoteSeen = {}
    /\ vlive = [id \in MemIds |-> NoLive]
    /\ vrows = {}
    /\ vpc = "idle"
    /\ vcall = NoVCall
    /\ vlast = NoVLast
    /\ emem = [id \in MemIds |-> NoEMem]
    /\ embedCalls = 0
    /\ elast = NoELast
    /\ fcommitted = {}
    /\ ftx = <<>>
    /\ fwrap = 0
    /\ fpc = "idle"
    /\ fcall = [id |-> 0, left |-> <<>>, due |-> <<>>]
    /\ ftrace = <<>>
    /\ fseen = {}
    /\ fsent = {}
    /\ hswap = [a \in Agents |-> "idle"]
    /\ running = {}
    /\ tmark = [c \in MemIds \X (1..NumCopies) |-> 0]
    /\ tsent = [id \in MemIds |-> 0]
    /\ tlast = [id |-> 0, copy |-> 0, result |-> "none"]
    /\ ocall = [c \in Callers |-> [pc |-> "idle", id |-> 0, existed |-> FALSE, ret |-> "none"]]

(* ------------------- TreasuryAgent.acquireDistributedLock -------------- *)
\* The clock advances.
Tick ==
    /\ now < MaxTime
    /\ now' = now + 1
    /\ UNCHANGED <<memories, pc, call, ret, held, concur, lastRel>>
    /\ UNCHANGED otherThanLock

\* Entry of acquireDistributedLock up to the return of removeMemoriesWhere:
\* reads the clock, derives expiresAt and lockId, sweeps expired leases.
AcquireStart(a, k, ttl) ==
    /\ pc[a] = "idle"
    /\ held[a] = NoLease
    /\ LET lockId == stringToUuid(LockString(k, "num", now))
           expired == {r \in ActiveFor(memories, k) :
                          /\ r.expiresAt < now
                          /\ NeverReleased(r)}
           others == {r \in ActiveFor(memories, k) :
                          /\ r.holder # a
                          /\ r.expiresAt > now}
       IN /\ call' = [call EXCEPT ![a] =
                 [key |-> k, now |-> now, expiresAt |-> now + ttl, lockId |-> lockId,
                  free |-> ActiveFor(memories, k) = {},
                  afterRel |-> lastRel[k] # NoLease /\ now < lastRel[k].expiresAt,
                  afterExp |-> IF expired = {} THEN 0 ELSE (CHOOSE r \in expired : TRUE).id,
                  blocked |-> IF others = {} THEN 0 ELSE (CHOOSE r \in others : TRUE).id]]
    /\ memories' = removeMemoriesWhere(memories, k, now)
    /\ lastRel' = [lastRel EXCEPT ![k] = NoLease]
    /\ concur' = [b \in Agents |->
                    IF b = a THEN InFlight \ {a}
                    ELSE IF b \in InFlight THEN concur[b] \cup {a} ELSE concur[b]]
    /\ ret' = [ret EXCEPT ![a] = "none"]
    /\ pc' = [pc EXCEPT ![a] = "acq_check"]
    /\ UNCHANGED <<now, held>>
    /\ UNCHANGED otherThanLock

\* MemoryManager.createMemory, the existence check: a memory with the same id
\* makes createMemory return without inserting, and acquire returns the lease.
AcquireCheck(a) ==
    /\ pc[a] = "acq_check"
    /\ IF AdapterGetMemoryById(memories, call[a].lockId) # {}
       THEN /\ ret' = [ret EXCEPT ![a] = "lease"]
            /\ held' = [held EXCEPT ![a] = Lease(a, call[a])]
            /\ pc' = [pc EXCEPT ![a] = "idle"]
            /\ call' = [call EXCEPT ![a] = Returned(call[a])]
       ELSE /\ pc' = [pc EXCEPT ![a] = "acq_insert"]
            /\ UNCHANGED <<ret, held, call>>
    /\ UNCHANGED <<memories, now, concur, lastRel>>
    /\ UNCHANGED otherThanLock

\* MemoryManager.createMemory, the INSERT: a unique-constraint error makes
\* acquire return null, otherwise the row is stored and the lease returned.
AcquireInsert(a) ==
    /\ pc[a] = "acq_insert"
    /\ LET row == LockRow(call[a].lockId, call[a].key, a, call[a].expiresAt)
       IN IF UniqueViolation(memories, row)
          THEN /\ ret' = [ret EXCEPT ![a] = "null"]
               /\ UNCHANGED <<memories, held>>
          ELSE /\ memories' = memories \cup {row}
               /\ ret' = [ret EXCEPT ![a] = "lease"]
               /\ held' = [held EXCEPT ![a] = Lease(a, call[a])]
    /\ pc' = [pc EXCEPT ![a] = "idle"]
    /\ call' = [call EXCEPT ![a] = Returned(call[a])]
    /\ UNCHANGED <<now, concur, lastRel>>
    /\ UNCHANGED otherThanLock

(* ------------------- TreasuryAgent.releaseDistributedLock -------------- *)
\* The caller holds the lease it passes: the row is in the store, active,
\* unexpired and held by the caller.
ValidHolder(a) ==
    \E r \in memories :
        /\ r.id = held[a].lockId
        /\ IsActiveLock(r)
        /\ r.holder = a
        /\ r.expiresAt > now

\* The rows releaseDistributedLock passes to removeMemory: the lease re-read
\* under the id stringToUuid(`lock-${lock.key}-${lock.lockId}`), when its
\* holder, state and expiry still match.
ReleaseTargetById(rows, lock, a, t) == {r \in rows : r.id = lock.lockId}
ReleaseTarget(rows, lock, a, t) ==
    LET currentLock == GetMemoryWithLock(rows,
                           stringToUuid(LockString(lock.key, "uuid", lock.lockId)), a)
    IN {r \in currentLock :
           /\ r.holder = a
           /\ r.lockState = "active"
           /\ ~ (r.expiresAt <= t)}

\* releaseDistributedLock: removes the lease it re-read when it is still the
\* caller's.  call keeps the lease that was passed and the clock that was read.
ReleaseLock(a) ==
    /\ pc[a] = "idle"
    /\ held[a] # NoLease
    /\ LET lock == held[a]
       IN /\ memories' = memories \ ReleaseTarget(memories, lock, a, now)
          /\ lastRel' = [lastRel EXCEPT ![lock.key] =
                            IF ValidHolder(a) THEN lock ELSE lastRel[lock.key]]
          /\ call' = [call EXCEPT ![a] =
                          [NoCall EXCEPT !.key = lock.key, !.now = now,
                                         !.expiresAt = lock.expiresAt,
                                         !.lockId = lock.lockId]]
    /\ held' = [held EXCEPT ![a] = NoLease]
    /\ ret' = [ret EXCEPT ![a] = "none"]
    /\ concur' = [concur EXCEPT ![a] = {}]
    /\ UNCHANGED <<now, pc>>
    /\ UNCHANGED otherThanLock

LockNext ==
    \/ Tick
    \/ \E a \in Agents, k \in Keys, ttl \in Ttls : AcquireStart(a, k, ttl)
    \/ \E a \in Agents : AcquireCheck(a)
    \/ \E a \in Agents : AcquireInsert(a)
    \/ \E a \in Agents : ReleaseLock(a)

SpecLock == Init /\ [][LockNext]_vars

\* Memories the sweep of an acquire is not about: the lease of a key no
\* acquire of the model asks for, and a memory that is not a lease
OtherKey == NumKeys + 1

OtherRows ==
    {LockRow(2 * UuidSpan + 1, OtherKey, ThisAgent, MaxTime + MaxTtl),
     [id |-> 2 * UuidSpan + 2, type |-> "note", key |-> 0, holder |-> 0,
      expiresAt |-> 0, lockState |-> "none", agentId |-> ThisAgent]}

\* MemoryManager.createMemory of such a memory
StoreOther(r) ==
    /\ ~ UniqueViolation(memories, r)
    /\ memories' = memories \cup {r}
    /\ UNCHANGED <<now, pc, call, ret, held, concur, lastRel>>
    /\ UNCHANGED otherThanLock

SweepNext ==
    \/ Tick
    \/ \E a \in Agents, k \in Keys, ttl \in Ttls : AcquireStart(a, k, ttl)
    \/ \E a \in Agents : AcquireCheck(a)
    \/ \E a \in Agents : AcquireInsert(a)
    \/ \E r \in OtherRows : StoreOther(r)

\* Acquires with other memories in the store, and no release
SpecSweep == Init /\ [][SweepNext]_vars

(* ----------------------- claims on the lock leases --------------------- *)
\* C1: at every instant and for every key the store holds at most one
\* distributed_lock memory with that key and lockState = active.
C1_AtMostOneActiveLease ==
    \A k \in Keys : Cardinality(ActiveFor(memories, k)) <= 1

\* An acquire was refused while another agent's active lease was in the store.
C1_Witness ==
    \E a \in Agents : \E r \in memories :
        /\ ret[a] = "null"
        /\ IsActiveLock(r)
        /\ r.key = call[a].key
        /\ r.holder # a

\* The acquire calls that overlapped a's call
Group(a) == {a} \cup concur[a]

\* C2: when two or more callers invoke acquire concurrently on a key with no
\* active lease, exactly one call returns a lease and the others return null.
C2_ExactlyOneAcquires ==
    \A a \in Agents :
        (/\ concur[a] # {}
         /\ \A b \in Group(a) :
               /\ pc[b] = "idle"
               /\ ret[b] # "none"
               /\ call[b].key = call[a].key
               /\ call[b].free)
        => Cardinality({b \in Group(a) : ret[b] = "lease"}) = 1

\* C3: after the holder of an active, unexpired lease releases it, the lease
\* is no longer active in the store, and the next acquire on the key made
\* before the original expiresAt returns a lease.
C3_ReleaseFreesKey ==
    /\ [][\A a \in Agents :
            (held[a] # NoLease /\ held'[a] = NoLease /\ ValidHolder(a))
            => ~ \E r \in memories' : r.id = held[a].lockId /\ IsActiveLock(r)]_vars
    /\ [](\A a \in Agents :
            (ret[a] # "none" /\ call[a].afterRel /\ concur[a] = {})
            => ret[a] = "lease")

\* C4: the first acquire made after the expiresAt of a never-released lease
\* removes the expired lease and returns a lease.
C4_ExpiredLeaseReaped ==
    \A a \in Agents :
        (ret[a] # "none" /\ call[a].afterExp # 0 /\ concur[a] = {})
        => /\ ret[a] = "lease"
           /\ ~ \E r \in memories : r.id = call[a].afterExp

(* --------------- transaction calls: engine and store wrapper ----------- *)
Max(x, y) == IF x >= y THEN x ELSE y

\* A transaction is open somewhere: on the wrapper, on the engine or on the
\* connection.
TransactionOpen ==
    \/ wrapperLevel > 0
    \/ engine.transactionLevel > 0
    \/ engine.isInTransaction
    \/ session.open

\* ExtendedMemoryManager.beginTransaction/commitTransaction/rollbackTransaction
\* call the base manager only at wrapper level 1; the engine's own calls
\* always reach the engine.
Delegates(api, op) ==
    \/ api = "engine"
    \/ api = "wrapper" /\ op = "begin" /\ wrapperLevel + 1 = 1
    \/ api = "wrapper" /\ op # "begin" /\ wrapperLevel = 1

\* Levels the model lets a call start from
WithinLevels(api, op) ==
    /\ engine.transactionLevel >= 0
    /\ engine.savepointCounter >= 0
    /\ op = "begin" => /\ engine.transactionLevel < MaxLevel
                       /\ engine.savepointCounter < MaxLevel
                       /\ Len(session.savepoints) < MaxSavepoints
    /\ op = "begin" /\ api = "wrapper" => wrapperLevel < MaxLevel

EntryOf(c, api, op, id) ==
    [NoCCall EXCEPT !.api = api, !.op = op, !.id = id,
                    !.from = engine.transactionLevel, !.wfrom = wrapperLevel,
                    !.inTx = TransactionOpen]

\* What a call that started with no transaction open leaves in lastCall when
\* it returns: whether it returned normally (ok), whether the level of the
\* manager it was called on moved, whether the stored data stayed the same.
\* Calls that started inside a transaction leave no record.
Returns(k, ok, to, same) ==
    IF k.inTx THEN NoLastCall
    ELSE [api |-> k.api, op |-> k.op, inTx |-> k.inTx, ok |-> ok,
          moved |-> to # (IF k.api = "wrapper" THEN k.wfrom ELSE k.from),
          same |-> same]

\* BEGIN statements since the last statement that ended a transaction
CountBegins(n, stmtOp) ==
    CASE stmtOp = "BEGIN" -> n + 1
      [] stmtOp \in {"COMMIT", "ROLLBACK"} -> 0
      [] OTHER -> n

\* A promise of the write queue settles: whoever awaits it may go on.
Settle(calls, c) ==
    [d \in Callers |->
        IF d = c THEN NoCCall
        ELSE IF calls[d].awaited = c THEN [calls[d] EXCEPT !.awaited = 0]
        ELSE calls[d]]

\* The promise of c resolves: the callers awaiting it are queued to resume,
\* in the order they began to await
Woken(queue, waiting, calls, c) ==
    LET AwaitsC(d) == calls[d].awaited = c
    IN queue \o SelectSeq(waiting, AwaitsC)

Resolve(e, c, viaQueue) ==
    IF viaQueue /\ e.writeQueue = c THEN [e EXCEPT !.writeQueue = 0] ELSE e

\* begin/commit/rollback that reaches the engine and issues its statement
TxCallDelegated(c, api, op) ==
    /\ cpc[c] = "idle"
    /\ Delegates(api, op)
    /\ WithinLevels(api, op)
    /\ LET iss == TxIssue(op, engine)
           res == Exec(iss.st, memories, session)
       IN /\ ~ iss.thrown
          /\ engine' = iss.e
          /\ memories' = res.rows
          /\ session' = res.s
          /\ ccall' = [ccall EXCEPT ![c] =
                 [EntryOf(c, api, op, 0) EXCEPT !.txop = op, !.stmt = iss.st.op,
                                               !.sp = iss.st.sp, !.ok = res.ok]]
          /\ beginsOpen' = CountBegins(beginsOpen, iss.st.op)
    /\ wrapperLevel' = IF api = "wrapper" /\ op = "begin"
                       THEN wrapperLevel + 1 ELSE wrapperLevel
    /\ cpc' = [cpc EXCEPT ![c] = "stmt_wait"]
    /\ c6step' = Advance(c6step, api, op, 0)
    /\ UNCHANGED <<entered, lastCall, arrivals, ready>>
    /\ UNCHANGED otherThanTx

\* commit/rollback that reaches the engine at level 0: 'No transaction in progress'
TxCallThrows(c, api, op) ==
    /\ cpc[c] = "idle"
    /\ Delegates(api, op)
    /\ WithinLevels(api, op)
    /\ TxIssue(op, engine).thrown
    /\ UNCHANGED <<memories, session>>
    /\ lastCall' = Returns(EntryOf(c, api, op, 0), FALSE,
                           IF api = "wrapper" THEN wrapperLevel ELSE engine.transactionLevel,
                           memories' = memories /\ session' = session)
    /\ c6step' = Advance(c6step, api, op, 0)
    /\ UNCHANGED <<engine, wrapperLevel, cpc, ccall, entered, beginsOpen, arrivals, ready>>
    /\ UNCHANGED otherThanTx

\* begin/commit/rollback the wrapper answers alone, without calling the
\* base manager
TxCallLocal(c, op) ==
    /\ cpc[c] = "idle"
    /\ ~ Delegates("wrapper", op)
    /\ op = "begin" => wrapperLevel < MaxLevel
    /\ wrapperLevel' = IF op = "begin" THEN wrapperLevel + 1
                       ELSE Max(0, wrapperLevel - 1)
    /\ UNCHANGED <<memories, session>>
    /\ lastCall' = Returns(EntryOf(c, "wrapper", op, 0), TRUE, wrapperLevel',
                           memories' = memories /\ session' = session)
    /\ c6step' = Advance(c6step, "wrapper", op, 0)
    /\ UNCHANGED <<engine, cpc, ccall, entered, beginsOpen, arrivals, ready>>
    /\ UNCHANGED otherThanTx

\* The savepoints recorded per level after a transaction statement completed
Entered(e, stmtOp, sp, from, to, ok) ==
    IF ~ ok THEN e
    ELSE CASE stmtOp = "SAVEPOINT" ->
                 [n \in DOMAIN e |-> IF n = to THEN sp ELSE e[n]]
           [] stmtOp \in {"RELEASE SAVEPOINT", "ROLLBACK TO SAVEPOINT"} ->
                 [n \in DOMAIN e |-> IF n = from THEN 0 ELSE e[n]]
           [] stmtOp \in {"COMMIT", "ROLLBACK"} -> [n \in DOMAIN e |-> 0]
           [] OTHER -> e

\* The awaited transaction statement settles: the rest of
\* begin/commit/rollbackTransactionInternal runs, then the rest of the
\* wrapper's method, or the catch block of the write that rolled back.
TxResumeStep(c) ==
    /\ cpc[c] = "stmt_wait"
    /\ LET k == ccall[c]
           e1 == TxResume(k.txop, engine, k.stmt, k.ok)
           wl == IF k.api = "wrapper" /\ k.op \in {"commit", "rollback"} /\ k.ok
                 THEN Max(0, wrapperLevel - 1) ELSE wrapperLevel
           lvl == IF k.op \in TxOps THEN k.from ELSE engine.transactionLevel
       IN /\ engine' = Resolve(e1, c, k.viaQueue)
          /\ wrapperLevel' = wl
          /\ entered' = Entered(entered, k.stmt, k.sp, lvl, e1.transactionLevel, k.ok)
          /\ lastCall' = Returns(k, k.op \in TxOps /\ k.ok,
                                 IF k.api = "wrapper" THEN wl ELSE e1.transactionLevel,
                                 FALSE)
    /\ ccall' = Settle(ccall, c)
    /\ ready' = Woken(ready, arrivals, ccall, c)
    /\ cpc' = [cpc EXCEPT ![c] = "idle"]
    /\ UNCHANGED <<memories, session, beginsOpen, c6step, arrivals>>
    /\ UNCHANGED otherThanTx

(* ----------------- PostgresMemoryManager: writes ----------------------- *)
WriteStmt(op, id) ==
    IF op = "create" THEN Stmt("INSERT", 0, NoteRow(id))
    ELSE Stmt("DELETE", 0, NoteRow(id))

\* createMemoryInternal / removeMemory enter enqueueWrite: inside a
\* transaction the operation starts at once, otherwise the caller awaits
\* this.writeQueue.
WriteCall(c, api, op, id) ==
    /\ cpc[c] = "idle"
    /\ IF engine.isInTransaction
       THEN LET res == Exec(WriteStmt(op, id), memories, session)
            IN /\ memories' = res.rows
               /\ session' = res.s
               /\ ccall' = [ccall EXCEPT ![c] =
                               [EntryOf(c, api, op, id) EXCEPT !.ok = res.ok]]
               /\ cpc' = [cpc EXCEPT ![c] = "write_wait"]
               /\ UNCHANGED <<arrivals, ready>>
       ELSE /\ ccall' = [ccall EXCEPT ![c] =
                            [EntryOf(c, api, op, id) EXCEPT !.awaited = engine.writeQueue]]
            /\ cpc' = [cpc EXCEPT ![c] = "awaitQueue"]
            /\ arrivals' = Append(arrivals, c)
            /\ ready' = IF engine.writeQueue = 0 THEN Append(ready, c) ELSE ready
            /\ UNCHANGED <<memories, session>>
    /\ c6step' = Advance(c6step, api, op, id)
    /\ UNCHANGED <<engine, wrapperLevel, entered, beginsOpen, lastCall>>
    /\ UNCHANGED otherThanTx

\* enqueueWrite after `await this.writeQueue`: installs its own promise as
\* this.writeQueue and starts the operation.  The continuations of settled
\* awaits run in the order the awaits settled.
QueueResume(c) ==
    /\ cpc[c] = "awaitQueue"
    /\ ccall[c].awaited = 0
    /\ ready # <<>>
    /\ Head(ready) = c
    /\ ready' = Tail(ready)
    /\ LET Other(d) == d # c
       IN arrivals' = SelectSeq(arrivals, Other)
    /\ LET res == Exec(WriteStmt(ccall[c].op, ccall[c].id), memories, session)
       IN /\ memories' = res.rows
          /\ session' = res.s
          /\ ccall' = [ccall EXCEPT ![c] = [@ EXCEPT !.viaQueue = TRUE, !.ok = res.ok]]
    /\ engine' = [engine EXCEPT !.writeQueue = c]
    /\ cpc' = [cpc EXCEPT ![c] = "write_wait"]
    /\ UNCHANGED <<wrapperLevel, entered, beginsOpen, c6step, lastCall>>
    /\ UNCHANGED otherThanTx

\* enqueueWrite calls resolve!() after the operation returned and in the
\* catch block after it threw
ResolveOnSuccessOnly(ok) == ok
ResolveCalled(ok) == TRUE

\* The write's statement settles.  Success: the operation returns and
\* enqueueWrite resolves its promise.  Failure: the catch block rolls the
\* transaction back when this.currentTransaction is set, and rethrows;
\* enqueueWrite resolves its promise and rethrows.
WriteResume(c) ==
    /\ cpc[c] = "write_wait"
    /\ LET k == ccall[c]
           iss == RollbackIssue(engine)
           res == Exec(iss.st, memories, session)
       IN IF ~ k.ok /\ engine.currentTransaction /\ ~ iss.thrown
          THEN /\ engine' = iss.e
               /\ memories' = res.rows
               /\ session' = res.s
               /\ ccall' = [ccall EXCEPT ![c] =
                               [k EXCEPT !.txop = "rollback", !.stmt = iss.st.op,
                                         !.sp = iss.st.sp, !.ok = res.ok]]
               /\ cpc' = [cpc EXCEPT ![c] = "stmt_wait"]
               /\ beginsOpen' = CountBegins(beginsOpen, iss.st.op)
               /\ UNCHANGED <<lastCall, ready>>
          ELSE /\ engine' = IF ResolveCalled(k.ok)
                               THEN Resolve(engine, c, k.viaQueue) ELSE engine
               /\ ready' = IF ResolveCalled(k.ok)
                              THEN Woken(ready, arrivals, ccall, c) ELSE ready
               /\ ccall' = IF ResolveCalled(k.ok)
                              THEN Settle(ccall, c) ELSE [ccall EXCEPT ![c] = NoCCall]
               /\ cpc' = [cpc EXCEPT ![c] = "idle"]
               /\ lastCall' = Returns(k, k.ok,
                                      IF k.api = "wrapper" THEN wrapperLevel
                                      ELSE engine.transactionLevel, FALSE)
               /\ UNCHANGED <<memories, session, beginsOpen>>
    /\ UNCHANGED <<wrapperLevel, entered, c6step, arrivals>>
    /\ UNCHANGED otherThanTx

(* ------------------ getMemoryWithLock / getMemoriesWithLock ------------ *)
\* The engine refuses outside a transaction; the wrapper of the agent
\* runtime forwards to getMemory / getMemories of its base manager.
LockReadSucceeds(api) ==
    IF api = "engine" THEN engine.isInTransaction ELSE TRUE

GetWithLock(c, api, op) ==
    /\ cpc[c] = "idle"
    /\ UNCHANGED <<memories, session>>
    /\ lastCall' = Returns(EntryOf(c, api, op, 0), LockReadSucceeds(api),
                           IF api = "wrapper" THEN wrapperLevel ELSE engine.transactionLevel,
                           memories' = memories /\ session' = session)
    /\ c6step' = Advance(c6step, api, op, 0)
    /\ UNCHANGED <<engine, wrapperLevel, cpc, ccall, entered, beginsOpen, arrivals, ready>>
    /\ UNCHANGED otherThanTx

(* ------------------------- specifications ------------------------------ *)
\* One caller at a time: every call returns before the next one starts.
TxSeqNext ==
    \/ \E api \in Apis, op \in TxOps : AllIdle /\ TxCallDelegated(SeqCaller, api, op)
    \/ \E api \in Apis, op \in TxOps : AllIdle /\ TxCallThrows(SeqCaller, api, op)
    \/ \E op \in TxOps : AllIdle /\ TxCallLocal(SeqCaller, op)
    \/ \E api \in Apis, op \in WriteOps, id \in MemIds :
          AllIdle /\ WriteCall(SeqCaller, api, op, id)
    \/ \E api \in Apis, op \in LockReadOps : AllIdle /\ GetWithLock(SeqCaller, api, op)
    \/ QueueResume(SeqCaller)
    \/ WriteResume(SeqCaller)
    \/ TxResumeStep(SeqCaller)

SpecTx == Init /\ [][TxSeqNext]_vars

\* Asynchronous callers of one engine instance that begin, commit and roll
\* back: the calls overlap at every await.
EngineNext ==
    \/ \E c \in EngineCallers, op \in TxOps : TxCallDelegated(c, "engine", op)
    \/ \E c \in EngineCallers, op \in TxOps : TxCallThrows(c, "engine", op)
    \/ \E c \in EngineCallers : TxResumeStep(c)

SpecEngine == Init /\ [][EngineNext]_vars

\* Asynchronous callers of one engine instance that write with no
\* transaction open: every write goes through enqueueWrite's queue.
QueueNext ==
    \/ \E c \in Callers, op \in WriteOps, id \in QueueIds : WriteCall(c, "engine", op, id)
    \/ \E c \in Callers : QueueResume(c)
    \/ \E c \in Callers : WriteResume(c)

SpecQueue == Init /\ [][QueueNext]_vars

\* One caller begins, commits and rolls back on an engine instance while
\* the others write; the calls overlap at every await.  Calls start while
\* the engine's counters are within the bounds.
WriteTxNext ==
    \/ \E op \in TxOps :
          beginsOpen < MaxLevel /\ TxCallDelegated(SeqCaller, "engine", op)
    \/ \E op \in TxOps : TxCallThrows(SeqCaller, "engine", op)
    \/ \E c \in EngineCallers \ {SeqCaller}, op \in WriteOps, id \in QueueIds :
          WithinLevels("engine", op) /\ WriteCall(c, "engine", op, id)
    \/ \E c \in EngineCallers : QueueResume(c)
    \/ \E c \in EngineCallers : WriteResume(c)
    \/ \E c \in EngineCallers : TxResumeStep(c)

SpecWriteTx == Init /\ [][WriteTxNext]_vars

(* --------- row locks: getMemoryWithLock across transactions ------------ *)
\* What a getMemoryWithLock issued on the given interface does to the row's
\* lock: the engine's SELECT ... FOR UPDATE takes it for the caller's
\* transaction, the runtime wrapper forwards to baseManager.getMemory, a
\* plain read that takes nothing.
LockTaken(api, p, lock) == IF api = "engine" THEN p ELSE lock

\* A statement of process p that needs the row's lock waits while another
\* transaction holds it.
RowFree(p) == rowLock \in {0, p}

\* beginTransaction on process p's own manager and connection
RowBegin(p) ==
    /\ rtx[p].pc = "idle"
    /\ commits < MaxCommits
    /\ rtx' = [rtx EXCEPT ![p] = [NoRowTx EXCEPT !.pc = "inTx"]]
    /\ UNCHANGED <<rowVal, rowLock, commits>>
    /\ UNCHANGED otherThanRow

\* getMemoryWithLock inside the open transaction: returns the committed row
RowGetWithLock(p, api) ==
    /\ rtx[p].pc = "inTx"
    /\ api = "engine" => RowFree(p)
    /\ rtx' = [rtx EXCEPT ![p] = [@ EXCEPT !.pc = "read", !.api = api, !.read = rowVal]]
    /\ rowLock' = LockTaken(api, p, rowLock)
    /\ UNCHANGED <<rowVal, commits>>
    /\ UNCHANGED otherThanRow

\* The modify-write: UPDATE of the row with a content computed from the
\* content that was read.  The UPDATE itself takes the row's lock.
RowUpdate(p) ==
    /\ rtx[p].pc = "read"
    /\ RowFree(p)
    /\ rtx' = [rtx EXCEPT ![p] = [@ EXCEPT !.pc = "wrote", !.pending = rtx[p].read + 1]]
    /\ rowLock' = p
    /\ UNCHANGED <<rowVal, commits>>
    /\ UNCHANGED otherThanRow

\* commitTransaction: the update becomes the committed row, the locks of the
\* transaction are released.
RowCommit(p) ==
    /\ rtx[p].pc = "wrote"
    /\ rowVal' = rtx[p].pending
    /\ commits' = commits + 1
    /\ rowLock' = IF rowLock = p THEN 0 ELSE rowLock
    /\ rtx' = [rtx EXCEPT ![p] = NoRowTx]
    /\ UNCHANGED otherThanRow

\* rollbackTransaction: nothing is written, the locks are released.
RowRollback(p) ==
    /\ rtx[p].pc \in {"inTx", "read", "wrote"}
    /\ rowLock' = IF rowLock = p THEN 0 ELSE rowLock
    /\ rtx' = [rtx EXCEPT ![p] = NoRowTx]
    /\ UNCHANGED <<rowVal, commits>>
    /\ UNCHANGED otherThanRow

RowNext ==
    \/ \E p \in Procs : RowBegin(p)
    \/ \E p \in Procs, api \in Apis : RowGetWithLock(p, api)
    \/ \E p \in Procs : RowUpdate(p)
    \/ \E p \in Procs : RowCommit(p)
    \/ \E p \in Procs : RowRollback(p)

SpecRowLock == Init /\ [][RowNext]_vars

(* ------------- MemoryManager: createMemory, getMemoryById, pages ------- *)
Min(x, y) == IF x <= y THEN x ELSE y

Take(rows, n) == SubSeq(rows, 1, Min(n, Len(rows)))

\* databaseAdapter.getMemoryById: the row with the id, of whatever agent
AdapterRow(rows, id) ==
    LET Same(r) == r.id = id
        found == SelectSeq(rows, Same)
    IN IF found = <<>> THEN NoMem ELSE found[1]

\* MemoryManager.getMemoryById: null (NoMem) when the row is another agent's
getMemoryById(rows, id) ==
    LET result == AdapterRow(rows, id)
    IN IF result # NoMem /\ result.agentId # ThisAgent THEN NoMem ELSE result

\* MemoryManager.createMemory: skips a memory whose id is already stored
createMemory(rows, m) ==
    IF AdapterRow(rows, m.id) # NoMem
    THEN [ok |-> TRUE, rows |-> rows]
    ELSE [ok |-> TRUE, rows |-> Append(rows, m)]

\* PostgresMemoryManager.createMemoryInternal: the INSERT into the memories
\* table, rejected by the primary key when the id is already stored
createMemoryInternal(rows, m) ==
    IF AdapterRow(rows, m.id) # NoMem
    THEN [ok |-> FALSE, rows |-> rows]
    ELSE [ok |-> TRUE, rows |-> Append(rows, m)]

\* databaseAdapter.getMemories({roomId, count, agentId}): the first count
\* memories of the room and the agent, in query order
AdapterGetMemories(rows, room, agent, count) ==
    LET InRoom(r) == r.roomId = room /\ r.agentId = agent
    IN Take(SelectSeq(rows, InRoom), count)

\* MemoryManager.getMemoriesWithPagination without cursor.  Reading .id of
\* items[items.length - 1] on an empty page raises a TypeError.
getMemoriesWithPagination(rows, room, limit) ==
    LET fetched == AdapterGetMemories(rows, room, ThisAgent, limit + 1)
        hasMore == Len(fetched) > limit
        items == IF hasMore THEN SubSeq(fetched, 1, limit) ELSE fetched
    IN IF hasMore /\ Len(items) = 0
       THEN [ok |-> FALSE, items |-> <<>>, hasMore |-> FALSE, nextCursor |-> 0]
       ELSE [ok |-> TRUE, items |-> items, hasMore |-> hasMore,
             nextCursor |-> IF hasMore THEN items[Len(items)].id ELSE 0]

\* A caller creates memory m, through the core MemoryManager or through the
\* engine's createMemoryInternal.
StoreCreate(api, m) ==
    /\ LET res == IF api = "engine" THEN createMemoryInternal(table, m)
                  ELSE createMemory(table, m)
       IN /\ table' = res.rows
          /\ lastOp' = [NoOp EXCEPT !.op = "create", !.api = api, !.ok = res.ok,
                                    !.mem = m,
                                    !.existed = AdapterRow(table, m.id) # NoMem]
    /\ firstMem' = [firstMem EXCEPT ![m.id] = IF @ = NoMem THEN m ELSE @]
    /\ UNCHANGED otherThanStore

\* A caller reads a memory back with getMemoryById
StoreGet(id) ==
    /\ lastOp' = [NoOp EXCEPT !.op = "get", !.api = "core",
                              !.mem = getMemoryById(table, id),
                              !.existed = AdapterRow(table, id) # NoMem,
                              !.nextCursor = id]
    /\ UNCHANGED <<table, firstMem>>
    /\ UNCHANGED otherThanStore

\* A caller asks for the first page of a room
StorePage(room, limit) ==
    /\ LET res == getMemoriesWithPagination(table, room, limit)
       IN lastOp' = [NoOp EXCEPT !.op = "page", !.api = "core", !.ok = res.ok,
                                 !.room = room, !.limit = limit,
                                 !.items = res.items, !.hasMore = res.hasMore,
                                 !.nextCursor = res.nextCursor]
    /\ UNCHANGED <<table, firstMem>>
    /\ UNCHANGED otherThanStore

\* A caller that was told hasMore asks again, passing the nextCursor it was
\* given as cursor.  getMemoriesWithPagination does not read options.cursor:
\* the query is the one of the first page.
StorePageNext ==
    /\ lastOp.op \in {"page", "next"}
    /\ lastOp.ok
    /\ lastOp.hasMore
    /\ LET res == getMemoriesWithPagination(table, lastOp.room, lastOp.limit)
       IN lastOp' = [NoOp EXCEPT !.op = "next", !.api = "core", !.ok = res.ok,
                                 !.room = lastOp.room, !.limit = lastOp.limit,
                                 !.cursor = lastOp.nextCursor,
                                 !.items = res.items, !.hasMore = res.hasMore,
                                 !.nextCursor = res.nextCursor]
    /\ UNCHANGED <<table, firstMem>>
    /\ UNCHANGED otherThanStore

StoreNext ==
    \/ \E api \in {"core", "engine"}, m \in Mems : StoreCreate(api, m)
    \/ \E id \in MemIds : StoreGet(id)
    \/ \E room \in Rooms, limit \in Limits : StorePage(room, limit)
    \/ StorePageNext

SpecStore == Init /\ [][StoreNext]_vars

(* -------- ExtendedMemoryManager: subscriptions and notifications ------- *)
\* callback.toString(): handlers 1 and 2 are two closures of the same source
\* text, handler 3 has its own, and so on in pairs.
Text(h) == (h + 1) \div 2

Range(q) == {q[i] : i \in 1..Len(q)}

Without(q, h) ==
    LET Other(x) == x # h
    IN SelectSeq(q, Other)

\* subscribe of utils/runtime.ts: isDuplicate compares by reference and by
\* toString(); subscribeToMemory of shared/memory: Set.add
Subscribe(kind, entry, h) ==
    LET isDuplicate ==
            IF kind = "runtime"
            THEN \E x \in Range(entry.cbs) : x = h \/ Text(x) = Text(h)
            ELSE h \in Range(entry.cbs)
    IN [present |-> TRUE,
        cbs |-> IF isDuplicate THEN entry.cbs ELSE Append(entry.cbs, h)]

\* unsubscribe of utils/runtime.ts: removes the first callback equal to cb by
\* reference or by toString(), then deletes an empty Set from the map;
\* unsubscribeFromMemory of shared/memory: Set.delete, nothing else
Unsubscribe(kind, entry, h) ==
    IF ~ entry.present THEN entry
    ELSE IF kind = "runtime"
         THEN LET Matches(x) == x = h \/ Text(x) = Text(h)
                  found == SelectSeq(entry.cbs, Matches)
                  left == IF found = <<>> THEN entry.cbs
                          ELSE Without(entry.cbs, found[1])
              IN IF left = <<>> THEN NoEntry
                 ELSE [present |-> TRUE, cbs |-> left]
         ELSE [present |-> TRUE, cbs |-> Without(entry.cbs, h)]

\* this.memorySubscriptions.get(type)
Lookup(event) == IF event \in SubTypes THEN subs[event] ELSE NoEntry

\* A notification loop without the try/catch around each callback: it stops
\* at the first callback that throws and raises its error.
NotifyUncaught(event, id, bad) ==
    LET cbs == Lookup(event).cbs
        stop == IF \E i \in 1..Len(cbs) : cbs[i] = bad
                THEN CHOOSE i \in 1..Len(cbs) : cbs[i] = bad
                ELSE Len(cbs)
    IN [raised |-> \E i \in 1..Len(cbs) : cbs[i] = bad,
        invoked |-> [i \in 1..stop |->
                        [event |-> event, h |-> cbs[i], id |-> id,
                         threw |-> cbs[i] = bad]]]

\* notifySubscribers / emit: every callback of the type is awaited in
\* insertion order inside its own try/catch; bad is the handler that throws.
Notify(event, id, bad) ==
    LET cbs == Lookup(event).cbs
    IN [raised |-> FALSE,
        invoked |-> [i \in 1..Len(cbs) |->
                        [event |-> event, h |-> cbs[i], id |-> id,
                         threw |-> cbs[i] = bad]]]

\* The notifications of one wrapper call, in order, up to one that raises
RECURSIVE NotifyAll(_, _, _)
NotifyAll(events, id, bad) ==
    IF events = <<>> THEN [raised |-> FALSE, emitted |-> <<>>, invoked |-> <<>>]
    ELSE LET first == Notify(Head(events), id, bad)
             rest == NotifyAll(Tail(events), id, bad)
         IN IF first.raised
            THEN [raised |-> TRUE, emitted |-> <<Head(events)>>,
                  invoked |-> first.invoked]
            ELSE [raised |-> rest.raised,
                  emitted |-> <<Head(events)>> \o rest.emitted,
                  invoked |-> first.invoked \o rest.invoked]

\* The envelope handed to memorySyncManager.syncMemory
Envelope(operation, id) == [type |-> "memory_sync", operation |-> operation, memory |-> id]

\* The event names createMemory notifies: memory_created, then content.type
\* when it is a string
CreateEvents(type) ==
    IF type = "note" THEN <<"memory_created", type>> ELSE <<"memory_created">>

\* updateMemory of shared/memory: memory_updated, then content.type
UpdateEvents(type) ==
    IF type = "note" THEN <<"memory_updated", type>> ELSE <<"memory_updated">>

\* removeMemory: utils/runtime.ts only forwards to the base manager;
\* shared/memory emits memory_deleted
RemoveEvents(kind) == IF kind = "runtime" THEN <<>> ELSE <<"memory_deleted">>

\* What the wrapper hands to the sync manager: utils/runtime.ts has no sync
\* manager
SyncOf(kind, operation, id) ==
    IF kind = "runtime" THEN <<>> ELSE <<Envelope(operation, id)>>

\* The memory the bus actions create
BusMem(id) == Mem(id, 1, 1, ThisAgent, 1, 0)

\* new ExtendedMemoryManager(...)
BusConstruct(kind) ==
    /\ busKind = "none"
    /\ busKind' = kind
    /\ UNCHANGED <<subs, busLog>>
    /\ UNCHANGED <<laterVars, lockVars, txVars, rowVars, storeVars>>

BusSubscribe(t, h) ==
    /\ busKind # "none"
    /\ subs' = [subs EXCEPT ![t] = Subscribe(busKind, @, h)]
    /\ busLog' = [NoBusLog EXCEPT !.op = "subscribe", !.type = t, !.h = h, !.done = TRUE]
    /\ UNCHANGED busKind
    /\ UNCHANGED <<laterVars, lockVars, txVars, rowVars, storeVars>>

BusUnsubscribe(t, h) ==
    /\ busKind # "none"
    /\ subs' = [subs EXCEPT ![t] = Unsubscribe(busKind, @, h)]
    /\ busLog' = [NoBusLog EXCEPT !.op = "unsubscribe", !.type = t, !.h = h, !.done = TRUE]
    /\ UNCHANGED busKind
    /\ UNCHANGED <<laterVars, lockVars, txVars, rowVars, storeVars>>

\* createMemory: the base manager's createMemory, the notifications, the
\* sync envelope
BusCreate(id, type, bad) ==
    /\ busKind # "none"
    /\ LET res == createMemory(table, BusMem(id))
           n == NotifyAll(CreateEvents(type), id, bad)
       IN /\ table' = res.rows
          /\ busLog' = [NoBusLog EXCEPT
                 !.op = "create", !.type = type, !.id = id,
                 !.ok = res.ok /\ ~ n.raised, !.done = res.ok,
                 !.emitted = n.emitted, !.invoked = n.invoked,
                 !.envelopes = IF n.raised THEN <<>> ELSE SyncOf(busKind, "create", id)]
    /\ firstMem' = [firstMem EXCEPT ![id] = IF @ = NoMem THEN BusMem(id) ELSE @]
    /\ UNCHANGED <<busKind, subs, lastOp>>
    /\ UNCHANGED <<laterVars, lockVars, txVars, rowVars>>

\* updateMemory, which only shared/memory has
BusUpdate(id, type, bad) ==
    /\ busKind = "shared"
    /\ LET n == NotifyAll(UpdateEvents(type), id, bad)
       IN busLog' = [NoBusLog EXCEPT
              !.op = "update", !.type = type, !.id = id,
              !.ok = ~ n.raised, !.done = TRUE,
              !.emitted = n.emitted, !.invoked = n.invoked,
              !.envelopes = IF n.raised THEN <<>> ELSE SyncOf(busKind, "update", id)]
    /\ UNCHANGED <<busKind, subs, table, firstMem, lastOp>>
    /\ UNCHANGED <<laterVars, lockVars, txVars, rowVars>>

\* removeMemory: shared/memory returns at once when getMemoryById finds
\* nothing; utils/runtime.ts forwards to the base manager
BusRemove(id, bad) ==
    /\ busKind # "none"
    /\ LET stored == getMemoryById(table, id) # NoMem
           Other(r) == r.id # id
           n == NotifyAll(RemoveEvents(busKind), id, bad)
       IN IF busKind = "shared" /\ ~ stored
          THEN /\ busLog' = [NoBusLog EXCEPT !.op = "remove", !.type = "note", !.id = id]
               /\ UNCHANGED <<table, firstMem>>
          ELSE /\ table' = SelectSeq(table, Other)
               /\ firstMem' = [firstMem EXCEPT ![id] = NoMem]
               /\ busLog' = [NoBusLog EXCEPT
                      !.op = "remove", !.type = "note", !.id = id,
                      !.ok = ~ n.raised, !.done = stored,
                      !.emitted = n.emitted, !.invoked = n.invoked,
                      !.envelopes = IF n.raised THEN <<>>
                                    ELSE SyncOf(busKind, "delete", id)]
    /\ UNCHANGED <<busKind, subs, lastOp>>
    /\ UNCHANGED <<laterVars, lockVars, txVars, rowVars>>

BusNext ==
    \/ \E kind \in BusKinds : BusConstruct(kind) /\ UNCHANGED syncVars
    \/ \E t \in SubTypes, h \in Handlers : BusSubscribe(t, h) /\ UNCHANGED syncVars
    \/ \E t \in SubTypes, h \in Handlers : BusUnsubscribe(t, h) /\ UNCHANGED syncVars
    \/ \E id \in MemIds, type \in ContentTypes, bad \in {0} \cup Handlers :
          BusCreate(id, type, bad) /\ UNCHANGED syncVars
    \/ \E id \in MemIds, type \in ContentTypes, bad \in {0} \cup Handlers :
          BusUpdate(id, type, bad) /\ UNCHANGED syncVars
    \/ \E id \in MemIds, bad \in {0} \cup Handlers :
          BusRemove(id, bad) /\ UNCHANGED syncVars

SpecBus == Init /\ [][BusNext]_vars

(* ------------------ mutations and the other processes ------------------ *)
\* The operations an envelope can name
SyncOps == {"create", "update", "delete"}

Mutation(operation, id) == [operation |-> operation, id |-> id]

\* The wrapper call that just returned hands its envelopes to the broker;
\* a successful call counts as a mutation made in this process.
Publish(operation, id) ==
    /\ broker' = broker \cup Range(busLog'.envelopes)
    /\ made' = IF busLog'.ok /\ busLog'.done
               THEN made \cup {Mutation(operation, id)} ELSE made
    /\ UNCHANGED remoteSeen

\* The broker delivers an envelope to the other process, which rebuilds the
\* memory and re-drives it through its own bus.
SyncDeliver(e) ==
    /\ e \in broker
    /\ broker' = broker \ {e}
    /\ remoteSeen' = remoteSeen \cup {Mutation(e.operation, e.memory)}
    /\ UNCHANGED made
    /\ UNCHANGED <<laterVars, lockVars, txVars, rowVars, storeVars, busVars>>

SyncEnvelopes == {Envelope(operation, id) : operation \in SyncOps, id \in MemIds}

SyncNext ==
    \/ \E kind \in BusKinds : BusConstruct(kind) /\ UNCHANGED syncVars
    \/ \E id \in MemIds : BusCreate(id, "note", 0) /\ Publish("create", id)
    \/ \E id \in MemIds : BusUpdate(id, "note", 0) /\ Publish("update", id)
    \/ \E id \in MemIds : BusRemove(id, 0) /\ Publish("delete", id)
    \/ \E e \in SyncEnvelopes : SyncDeliver(e)

\* The broker delivers every published envelope
SpecSync ==
    /\ Init
    /\ [][SyncNext]_vars
    /\ \A e \in SyncEnvelopes : WF_vars(SyncDeliver(e))

(* ------------- PostgresMemoryManager: the versions table --------------- *)
\* content.metadata?.version || 1
VersionOf(version) == IF version = 0 THEN 1 ELSE version

\* FOREIGN KEY (id) REFERENCES memories(id), checked when the statement ends
ForeignKeyUnchecked(live, id) == TRUE
ForeignKeyHolds(live, id) == live[id].present

\* INSERT INTO memories_versions: rejected by the foreign key when the live
\* table has no row of the id, and by PRIMARY KEY (id, version)
InsertVersion(live, rows, id, version) ==
    IF ~ ForeignKeyHolds(live, id) \/ <<id, version>> \in rows
    THEN [ok |-> FALSE, rows |-> rows]
    ELSE [ok |-> TRUE, rows |-> rows \cup {<<id, version>>}]

\* INSERT INTO memories: rejected by the primary key
InsertLive(live, m) ==
    IF live[m.id].present
    THEN [ok |-> FALSE, live |-> live]
    ELSE [ok |-> TRUE,
          live |-> [live EXCEPT ![m.id] = [present |-> TRUE, room |-> m.room,
                                           versioned |-> m.versioned]]]

\* DELETE FROM memories of the ids, with ON DELETE CASCADE on the versions
DeleteLive(live, ids) == [id \in MemIds |-> IF id \in ids THEN NoLive ELSE live[id]]

DeleteCascade(rows, ids) == {r \in rows : r[1] \notin ids}

VCalls ==
    [id : MemIds, room : Rooms, versioned : BOOLEAN, version : Versions]

\* The catch of createMemoryInternal with no transaction open: the error
\* goes to the caller, and what the statements before it wrote stays
VCreateFails ==
    /\ vlast' = [op |-> "create", ok |-> FALSE]
    /\ vpc' = "idle"
    /\ vcall' = NoVCall
    /\ UNCHANGED <<vlive, vrows>>

\* createMemoryInternal with no transaction open, up to its first INSERT that
\* is awaited with another to follow: the versions row of a versioned kind,
\* else the live row
VCreate(m) ==
    /\ vpc = "idle"
    /\ IF m.versioned
       THEN LET res == InsertVersion(vlive, vrows, m.id, VersionOf(m.version))
            IN IF res.ok
               THEN /\ vrows' = res.rows
                    /\ vpc' = "main"
                    /\ vcall' = m
                    /\ UNCHANGED <<vlive, vlast>>
               ELSE VCreateFails
       ELSE LET res == InsertLive(vlive, m)
            IN IF res.ok
               THEN /\ vlive' = res.live
                    /\ vlast' = [NoVLast EXCEPT !.op = "create"]
                    /\ UNCHANGED <<vrows, vpc, vcall>>
               ELSE VCreateFails
    /\ UNCHANGED otherThanVersion

\* The INSERT into the live table of a versioned createMemoryInternal
VCreateMain ==
    /\ vpc = "main"
    /\ LET res == InsertLive(vlive, vcall)
       IN IF res.ok
          THEN /\ vlive' = res.live
               /\ vlast' = [NoVLast EXCEPT !.op = "create"]
               /\ vpc' = "idle"
               /\ vcall' = NoVCall
               /\ UNCHANGED vrows
          ELSE VCreateFails
    /\ UNCHANGED otherThanVersion

\* The three writes below come from any engine on the backend: another
\* process does not wait for a create of this one.
\* updateMemoryInternal: UPDATE memories SET content WHERE id
VUpdate(id, versioned) ==
    /\ vlive' = IF vlive[id].present
                THEN [vlive EXCEPT ![id].versioned = versioned] ELSE vlive
    /\ vlast' = [NoVLast EXCEPT !.op = "update"]
    /\ UNCHANGED <<vrows, vpc, vcall>>
    /\ UNCHANGED otherThanVersion

\* removeMemory: DELETE FROM memories WHERE id
VRemove(id) ==
    /\ vlive' = DeleteLive(vlive, {id})
    /\ vrows' = DeleteCascade(vrows, {id})
    /\ vlast' = [NoVLast EXCEPT !.op = "remove"]
    /\ UNCHANGED <<vpc, vcall>>
    /\ UNCHANGED otherThanVersion

\* removeAllMemories: the rows of the room
VRemoveAll(room) ==
    /\ LET ids == {id \in MemIds : vlive[id].present /\ vlive[id].room = room}
       IN /\ vlive' = DeleteLive(vlive, ids)
          /\ vrows' = DeleteCascade(vrows, ids)
    /\ vlast' = [NoVLast EXCEPT !.op = "removeAll"]
    /\ UNCHANGED <<vpc, vcall>>
    /\ UNCHANGED otherThanVersion

VersionNext ==
    \/ \E m \in VCalls : VCreate(m)
    \/ VCreateMain
    \/ \E id \in MemIds, versioned \in BOOLEAN : VUpdate(id, versioned)
    \/ \E id \in MemIds : VRemove(id)
    \/ \E room \in Rooms : VRemoveAll(room)

SpecVersions == Init /\ [][VersionNext]_vars

(* ------------- claims on the write queue and the transactions ---------- *)
\* The writes that went through the queue of enqueueWrite and are executing
Executing == {c \in Callers : cpc[c] = "write_wait" /\ ccall[c].viaQueue}

\* C5: with no transaction open on the engine, at most one write passed to
\* enqueueWrite is executing at any time.
C5_OneWriteAtATime ==
    ~ engine.isInTransaction => Cardinality(Executing) <= 1

\* C6: after begin; create(A); begin; create(B); rollback; commit issued
\* through the store wrapper of the agents, A is stored and B is not.
C6_NestedRollback ==
    (c6step = ScriptLen /\ AllIdle)
    => /\ NoteRow(1) \in memories
       /\ NoteRow(2) \notin memories

\* The statement caller c awaited completed and the engine call goes on
StatementDone(c) == cpc[c] = "stmt_wait" /\ cpc'[c] = "idle" /\ ccall[c].ok

\* C7: in every sequence of begin, commit and rollback calls on the engine,
\* BEGIN goes with the level change 0 to 1, COMMIT and ROLLBACK with 1 to 0,
\* SAVEPOINT sp_N with N to N+1, and RELEASE SAVEPOINT / ROLLBACK TO SAVEPOINT
\* with N+1 to N (N >= 1), naming sp_N, the savepoint created on entering
\* level N+1.
C7_NestedProtocol ==
    [][\A c \in Callers :
         StatementDone(c) =>
           LET k == ccall[c]
               from == engine.transactionLevel
                         + (IF k.txop = "commit" THEN 1 ELSE 0)
               to == engine'.transactionLevel
           IN /\ k.stmt = "BEGIN" => (from = 0 /\ to = 1)
              /\ k.stmt \in {"COMMIT", "ROLLBACK"} => (from = 1 /\ to = 0)
              /\ k.stmt = "SAVEPOINT" =>
                    (from >= 1 /\ to = from + 1 /\ k.sp = from)
              /\ k.stmt \in {"RELEASE SAVEPOINT", "ROLLBACK TO SAVEPOINT"} =>
                    /\ to >= 1
                    /\ from = to + 1
                    /\ k.sp = to
                    /\ k.sp = entered[from]]_vars

\* A nested level is being left: the statement naming sp_2 has completed and
\* the engine is about to go from level 3 to level 2.
C7_Witness ==
    \E c \in Callers :
        /\ cpc[c] = "stmt_wait"
        /\ ccall[c].api = "engine"
        /\ ccall[c].stmt \in {"RELEASE SAVEPOINT", "ROLLBACK TO SAVEPOINT"}
        /\ ccall[c].sp = 2
        /\ entered[3] = 2
        /\ ccall[c].ok

\* C8: between one final COMMIT/ROLLBACK and the next the engine issues at
\* most one BEGIN, whatever the interleaving of its asynchronous callers.
C8_OneBegin == beginsOpen <= 1

\* C9: commitTransaction or rollbackTransaction called with no transaction
\* open fails with an error and leaves the level and the stored data
\* unchanged, on the engine and on the store wrapper.
C9_NoTransactionFails ==
    (lastCall.op \in {"commit", "rollback"} /\ ~ lastCall.inTx)
    => /\ ~ lastCall.ok
       /\ ~ lastCall.moved
       /\ lastCall.same

\* C10: getMemoryWithLock and getMemoriesWithLock called through the store
\* wrapper of the agent runtime with no transaction open fail with an error.
C10_LockReadNeedsTransaction ==
    (lastCall.api = "wrapper" /\ lastCall.op \in LockReadOps /\ ~ lastCall.inTx)
    => ~ lastCall.ok

\* Processes that got the row from getMemoryWithLock in a transaction that
\* is still open
HoldsRow == {p \in Procs : rtx[p].pc \in {"read", "wrote"}}

\* C11: a row returned by getMemoryWithLock stays exclusively locked until
\* the transaction ends: no two open transactions hold the row from
\* getMemoryWithLock at once, and no read-modify-write done under it is lost
\* (once all transactions have ended the row counts every committed update).
C11_RowLockExclusive ==
    /\ Cardinality(HoldsRow) <= 1
    /\ (\A p \in Procs : rtx[p].pc = "idle") => rowVal = commits

\* Rows of the table with the given id
RowsWithId(id) == {i \in 1..Len(table) : table[i].id = id}

\* C12: createMemory is idempotent by id: after createMemory(m) and then
\* createMemory(m') with the same id, exactly one row has that id, it holds
\* m's content, and the second call returned without error.
C12_IdempotentCreate ==
    /\ \A id \in MemIds :
          firstMem[id] # NoMem =>
            /\ Cardinality(RowsWithId(id)) = 1
            /\ \A i \in RowsWithId(id) : table[i] = firstMem[id]
    /\ (lastOp.op = "create" /\ lastOp.existed) => lastOp.ok

\* C13: after createMemory(m) succeeded for a valid memory m of any agentId,
\* getMemoryById(m.id) on the same manager returns a memory equal to m.
C13_RoundTrip ==
    (lastOp.op = "get" /\ firstMem[lastOp.nextCursor] # NoMem)
    => lastOp.mem = firstMem[lastOp.nextCursor]

\* The memories of the room the manager's query returns, in query order
RoomMemories(room) ==
    LET Mine(r) == r.roomId = room /\ r.agentId = ThisAgent
    IN SelectSeq(table, Mine)

\* C20: getMemoriesWithPagination(roomId, limit) with no cursor on a room of
\* n memories returns the first min(limit, n) memories in query order,
\* hasMore = (n > limit), and nextCursor = the id of the last returned item
\* when hasMore, undefined otherwise.
C20_FirstPage ==
    lastOp.op = "page" =>
        LET all == RoomMemories(lastOp.room)
            n == Len(all)
        IN /\ lastOp.ok
           /\ lastOp.items = SubSeq(all, 1, Min(lastOp.limit, n))
           /\ lastOp.hasMore = (n > lastOp.limit)
           /\ lastOp.hasMore => /\ lastOp.items # <<>>
                                /\ lastOp.nextCursor = lastOp.items[Len(lastOp.items)].id
           /\ ~ lastOp.hasMore => lastOp.nextCursor = 0

\* The wrapper call that returned last was a successful mutation
Mutated == busLog.op \in {"create", "update", "remove"} /\ busLog.ok /\ busLog.done

\* The generic event name of a mutation
GenericEvent(op) ==
    CASE op = "create" -> "memory_created"
      [] op = "update" -> "memory_updated"
      [] op = "remove" -> "memory_deleted"

\* C14: after every successful createMemory, updateMemory and removeMemory
\* of a memory whose content type is the string T, subscribers are notified
\* exactly twice: once under the generic event name and once under T.
C14_NotifiedTwice ==
    (Mutated /\ busLog.type = "note")
    => busLog.emitted = <<GenericEvent(busLog.op), busLog.type>>

\* How many times handler h was invoked under the event name
Invocations(event, h) ==
    Cardinality({i \in 1..Len(busLog.invoked) :
                    busLog.invoked[i].event = event /\ busLog.invoked[i].h = h})

\* C15: when a subscriber A of a type throws during a notification, every
\* other subscriber B of the same type is still invoked exactly once for
\* that notification, and the createMemory call completes without raising.
C15_SubscriberIsolation ==
    \A i \in 1..Len(busLog.invoked) :
        (busLog.op = "create" /\ busLog.invoked[i].threw)
        => /\ busLog.ok
           /\ \A b \in Range(subs[busLog.invoked[i].event].cbs) :
                 b # busLog.invoked[i].h => Invocations(busLog.invoked[i].event, b) = 1

\* A createMemory with the content type "note" ran with two subscribers of
\* "note", the first of which threw, and the second was invoked.
C15_Witness ==
    /\ busLog.op = "create"
    /\ Len(subs["note"].cbs) >= 2
    /\ \E i, j \in 1..Len(busLog.invoked) :
          /\ i < j
          /\ busLog.invoked[i].event = "note"
          /\ busLog.invoked[j].event = "note"
          /\ busLog.invoked[i].threw
          /\ ~ busLog.invoked[j].threw

\* The operation name of the envelope of a mutation
SyncOperation(op) ==
    CASE op = "create" -> "create"
      [] op = "update" -> "update"
      [] op = "remove" -> "delete"

\* C16: for every successful createMemory, updateMemory and removeMemory
\* through the store exactly one envelope of type memory_sync is handed to
\* the sync manager, with the operation create, update or delete and the
\* mutated memory.
C16_OneEnvelope ==
    Mutated =>
        busLog.envelopes =
            <<[type |-> "memory_sync", operation |-> SyncOperation(busLog.op),
               memory |-> busLog.id]>>

\* How many times handler h is in the Set of type t
Registered(map, t, h) ==
    Cardinality({i \in 1..Len(map[t].cbs) : map[t].cbs[i] = h})

\* C18: subscribe registers each distinct handler exactly once: after
\* subscribe(type, h) handler h is registered once, whether or not it was
\* registered before and whatever other handlers (also closures with the
\* same source text) are registered, and the other handlers stay registered.
C18_SubscribeOnce ==
    [][busLog'.op = "subscribe" =>
         /\ Registered(subs', busLog'.type, busLog'.h) = 1
         /\ \A g \in Handlers \ {busLog'.h} :
               Registered(subs', busLog'.type, g) = Registered(subs, busLog'.type, g)]_vars

\* C19: after unsubscribe(type, cb) the handler cb is no longer registered
\* for the type while every other registered handler still is, and no type
\* of the subscription map is ever left with an empty subscriber set.
C19_Unsubscribe ==
    /\ [][busLog'.op = "unsubscribe" =>
            /\ Registered(subs', busLog'.type, busLog'.h) = 0
            /\ \A g \in Handlers \ {busLog'.h} :
                  Registered(subs', busLog'.type, g) = Registered(subs, busLog'.type, g)]_vars
    /\ [](\A t \in SubTypes : subs[t].present => subs[t].cbs # <<>>)

\* C17: every mutation performed in one process is eventually delivered to
\* the subscribers of every other process sharing the backend, when the
\* broker delivers every published envelope.
C17_EventualDelivery ==
    \A operation \in SyncOps, id \in MemIds :
        (Mutation(operation, id) \in made) ~> (Mutation(operation, id) \in remoteSeen)

\* C21: getMemoriesWithPagination called again with cursor = the previous
\* nextCursor returns the items that follow the cursor item, and hasMore
\* tells whether memories remain after them, so that repeating the call
\* returns every memory of the room once and ends.
C21_NextPage ==
    lastOp.op = "next" =>
        LET all == RoomMemories(lastOp.room)
            n == Len(all)
            at == IF \E i \in 1..n : all[i].id = lastOp.cursor
                  THEN CHOOSE i \in 1..n : all[i].id = lastOp.cursor ELSE 0
        IN /\ lastOp.ok
           /\ lastOp.items = SubSeq(all, at + 1, Min(at + lastOp.limit, n))
           /\ lastOp.hasMore = (n > at + lastOp.limit)

\* The version numbers the versions table holds for the id
VersionNumbers(id) == {r[2] : r \in {q \in vrows : q[1] = id}}

C23_VersionsHaveLiveRow == \A r \in vrows : vlive[r[1]].present

\* A versions row was written and the create stands between its two
\* INSERTs, after another id was removed
C23_Witness == vpc = "main" /\ vrows # {} /\ vlast.op \in {"remove", "removeAll"}

\* C24: an acquire that found an active, unexpired lease for its key held by
\* another holder returns null, and that lease is still in the store, active
\* and held by the other holder.
C24_RefusedWhenHeld ==
    \A a \in Agents :
        (ret[a] # "none" /\ call[a].blocked # 0)
        => /\ ret[a] = "null"
           /\ \E r \in memories :
                 /\ r.id = call[a].blocked
                 /\ IsActiveLock(r)
                 /\ r.holder # a

\* C25: releaseDistributedLock called with a lease that is absent from the
\* store, held by another agent, not active or expired leaves the store
\* unchanged.
C25_ReleaseOnlyOwn ==
    [][\A a \in Agents :
          (held[a] # NoLease /\ held'[a] = NoLease /\ ~ ValidHolder(a))
          => memories' = memories]_vars

\* An agent released a lease that had expired and whose row is in the store
C25_Witness ==
    \E a \in Agents :
        /\ pc[a] = "idle"
        /\ held[a] = NoLease
        /\ call[a].lockId # 0
        /\ call[a].expiresAt <= call[a].now
        /\ \E r \in memories : r.id = call[a].lockId /\ IsActiveLock(r)

\* The memories a sweep for the key at the time may delete
Swept(r, key, t) == r.type = "distributed_lock" /\ r.key = key /\ r.expiresAt < t

C26_StrictFifo ==
    [][\A c \in Callers :
          (cpc[c] = "awaitQueue" /\ cpc'[c] = "write_wait")
          => Head(arrivals) = c]_vars

\* The callers in the sequence
Queued(q) == {q[i] : i \in 1..Len(q)}

\* C27: a write that fails does not poison the queue.  Every write waiting
\* in enqueueWrite either waits for a write that is still running, or is
\* queued to resume and the first of the queue can start; and when a write
\* returns, with an error or not, the outcome of no other write changes.
C27_NoPoison ==
    /\ [](\A d \in Callers :
            cpc[d] = "awaitQueue"
            => IF ccall[d].awaited = 0
               THEN d \in Queued(ready) /\ ENABLED QueueResume(Head(ready))
               ELSE cpc[ccall[d].awaited] # "idle")
    /\ [][\A c \in Callers :
            (cpc[c] = "write_wait" /\ cpc'[c] = "idle")
            => /\ lastCall'.ok = ccall[c].ok
               /\ \A d \in Callers \ {c} :
                     cpc'[d] = cpc[d] /\ ccall'[d].ok = ccall[d].ok]_vars

\* A write has failed and returned, and a write that waited for it is queued
\* to start
C27_Witness ==
    /\ lastCall.op \in WriteOps
    /\ ~ lastCall.ok
    /\ engine.writeQueue = 0
    /\ \E d \in Callers :
          /\ cpc[d] = "awaitQueue"
          /\ ready = <<d>>
          /\ \A c \in Callers \ {d} : cpc[c] = "idle"

\* The statements rollbackTransaction issues
RollbackStmts == {"ROLLBACK", "ROLLBACK TO SAVEPOINT"}

\* C28: when the statement of createMemoryInternal or removeMemory has
\* failed, the catch block issues a rollback if a transaction is open and
\* returns the error to the caller once the rollback is done; with no
\* transaction open it returns the error and issues no statement.
C28_RollbackThenRethrow ==
    [][\A c \in Callers :
          (/\ cpc[c] = "write_wait"
           /\ cpc'[c] # "write_wait"
           /\ ~ ccall[c].ok)
          => IF engine.currentTransaction
             THEN /\ cpc'[c] = "stmt_wait"
                  /\ ccall'[c].stmt \in RollbackStmts
             ELSE /\ cpc'[c] = "idle"
                  /\ session' = session
                  /\ memories' = memories]_vars


(* ------------------------- addEmbeddingToMemory ------------------------ *)
\* The embeddings a caller can put on a Memory itself: an array of the
\* accepted length, of another length, empty, or a value that is no array.
\* All of them are truthy in `if (memory.embedding)`.
SuppliedEmbeddings ==
    { [set |-> TRUE, isArray |-> a, length |-> n, gen |-> 0] :
        a \in BOOLEAN, n \in {0, EmbeddingLength, EmbeddingLength + 1} }

\* embed(runtime, text): the embedding provider; n numbers its calls
embed(n) == [set |-> TRUE, isArray |-> TRUE, length |-> EmbeddingLength, gen |-> n]

\* `!Array.isArray(e) || e.length !== 1536`
InvalidEmbedding(e) == ~ e.isArray \/ e.length # EmbeddingLength

\* A caller builds a Memory object, with or without text and embedding
NewMemory(id, text, e) ==
    /\ emem' = [emem EXCEPT ![id] = [present |-> TRUE, text |-> text, embedding |-> e]]
    /\ elast' = [NoELast EXCEPT !.op = "new", !.id = id]
    /\ UNCHANGED embedCalls
    /\ UNCHANGED otherThanEmbed

\* MemoryManager.addEmbeddingToMemory
AddEmbeddingCore(id) ==
    LET m == emem[id]
        done(ok) == [op |-> "add", mgr |-> "core", id |-> id, ok |-> ok,
                     text |-> m.text, before |-> m.embedding,
                     callsBefore |-> embedCalls]
    IN
    /\ m.present
    /\ IF m.embedding.set
       THEN /\ elast' = done(~ InvalidEmbedding(m.embedding))
            /\ UNCHANGED <<emem, embedCalls>>
       ELSE IF m.text = ""
       THEN /\ elast' = done(FALSE)
            /\ UNCHANGED <<emem, embedCalls>>
       ELSE /\ embedCalls < MaxEmbedCalls
            /\ embedCalls' = embedCalls + 1
            /\ LET embedding == embed(embedCalls + 1) IN
               IF InvalidEmbedding(embedding)
               THEN /\ elast' = done(FALSE)
                    /\ UNCHANGED emem
               ELSE /\ emem' = [emem EXCEPT ![id].embedding = embedding]
                    /\ elast' = done(TRUE)
    /\ UNCHANGED otherThanEmbed

\* PostgresMemoryManager.addEmbeddingToMemory
AddEmbeddingPostgres(id) ==
    /\ emem[id].present
    /\ elast' = [op |-> "add", mgr |-> "postgres", id |-> id, ok |-> TRUE,
                 text |-> emem[id].text, before |-> emem[id].embedding,
                 callsBefore |-> embedCalls]
    /\ UNCHANGED <<emem, embedCalls>>
    /\ UNCHANGED otherThanEmbed

EmbedNext ==
    \/ \E id \in MemIds, text \in Texts, e \in SuppliedEmbeddings \cup {NoEmbedding} :
          NewMemory(id, text, e)
    \/ \E id \in MemIds : AddEmbeddingCore(id)
    \/ \E id \in MemIds : AddEmbeddingPostgres(id)

SpecEmbed == Init /\ [][EmbedNext]_vars

\* C30: addEmbeddingToMemory on a memory with text and no embedding returns
\* with an embedding of 1536 elements on it, and a call on a memory whose
\* embedding an earlier call generated leaves that embedding as it was and
\* makes no call to the embedding provider.
C30_Idempotent ==
    elast.op = "add" =>
        LET e == emem[elast.id].embedding IN
        /\ (~ elast.before.set /\ elast.text # "")
              => /\ elast.ok
                 /\ e.set /\ e.isArray /\ e.length = EmbeddingLength
        /\ elast.before.gen > 0
              => /\ elast.ok
                 /\ e = elast.before
                 /\ embedCalls = elast.callsBefore


\* C31: createMemoryInternal of a memory of a versioned kind whose id the
\* store does not hold yet succeeds: its first INSERT adds the versions row
\* carrying content.metadata.version, or 1 when none is given, its second
\* adds the live row, and the id then has exactly one live row and exactly
\* one versions row.
C31_VersionedCreate ==
    [][/\ \A m \in VCalls :
             (m.versioned /\ ~ vlive[m.id].present /\ VCreate(m))
             => /\ vpc' = "main"
                /\ vrows' = vrows \cup {<<m.id, VersionOf(m.version)>>}
       /\ (VCreateMain /\ ~ vlive[vcall.id].present)
             => /\ vlast'.ok
                /\ vlive'[vcall.id].present
                /\ VersionNumbers(vcall.id)' = {VersionOf(vcall.version)}]_vars


(* ------------- the wrapper's createMemory inside transactions ---------- *)
\* beginTransaction, commitTransaction and rollbackTransaction called on the
\* wrapper between its writes.  utils/runtime.ts counts the levels itself
\* and forwards only the outermost call; shared/memory forwards every call.
\* The engine opens a level with BEGIN or SAVEPOINT, commits it with COMMIT
\* or RELEASE SAVEPOINT, and undoes its writes with ROLLBACK or ROLLBACK TO
\* SAVEPOINT; commit and rollback at level 0 throw and change nothing.
FlowTx(op) ==
    LET n == Len(ftx)
        forwarded == busKind = "shared" \/ (IF op = "begin" THEN fwrap = 0 ELSE fwrap = 1)
        engine_tx ==
            IF op = "begin" THEN Append(ftx, {})
            ELSE IF n = 0 THEN ftx
            ELSE IF op = "rollback" THEN SubSeq(ftx, 1, n - 1)
            ELSE IF n = 1 THEN <<>>
            ELSE [SubSeq(ftx, 1, n - 1) EXCEPT ![n - 1] = @ \cup ftx[n]]
    IN
    /\ busKind # "none"
    /\ fpc = "idle"
    /\ op = "begin" => (Len(ftx) < MaxLevel /\ fwrap < MaxLevel)
    /\ ftx' = IF forwarded THEN engine_tx ELSE ftx
    /\ fcommitted' = IF forwarded /\ op = "commit" /\ n = 1
                     THEN fcommitted \cup ftx[1] ELSE fcommitted
    /\ fwrap' = IF busKind = "shared" THEN fwrap
                ELSE IF op = "begin" THEN fwrap + 1
                ELSE IF fwrap = 0 THEN 0 ELSE fwrap - 1
    /\ UNCHANGED <<fpc, fcall, ftrace, fseen, fsent>>
    /\ UNCHANGED busVars
    /\ UNCHANGED otherThanFlow

\* `await this.emit(...)` has returned: no callback is left to await
NotificationsStarted(left) == TRUE
NotificationsDone(left) == left = <<>>

\* createMemory of the wrapper up to the return of the base manager's
\* createMemory: it raises (fails), or it returns after skipping a memory
\* whose id is stored or after inserting the row, inside the open
\* transaction when there is one.
FlowCreate(id, fails) ==
    LET n == Len(ftx)
        stored == id \in fcommitted \/ \E i \in 1..n : id \in ftx[i]
        due == NotifyAll(CreateEvents("note"), id, 0).invoked
    IN
    /\ busKind # "none"
    /\ fpc = "idle"
    /\ IF fails
       THEN /\ ftrace' = << [step |-> "raised", id |-> id, h |-> 0] >>
            /\ UNCHANGED <<fcommitted, ftx, fpc, fcall>>
       ELSE /\ ftrace' = << [step |-> "written", id |-> id, h |-> 0] >>
            /\ fpc' = "notify"
            /\ fcall' = [id |-> id, left |-> due, due |-> due]
            /\ IF stored THEN UNCHANGED <<fcommitted, ftx>>
               ELSE IF n = 0
               THEN fcommitted' = fcommitted \cup {id} /\ UNCHANGED ftx
               ELSE ftx' = [ftx EXCEPT ![n] = @ \cup {id}] /\ UNCHANGED fcommitted
    /\ UNCHANGED <<fwrap, fseen, fsent>>
    /\ UNCHANGED busVars
    /\ UNCHANGED otherThanFlow

\* One callback of notifySubscribers / emit is awaited
FlowNotify ==
    /\ fpc = "notify"
    /\ fcall.left # <<>>
    /\ ftrace' = Append(ftrace, [step |-> "notify", id |-> fcall.id, h |-> Head(fcall.left).h])
    /\ fseen' = fseen \cup {fcall.id}
    /\ fcall' = [fcall EXCEPT !.left = Tail(@)]
    /\ UNCHANGED <<fcommitted, ftx, fwrap, fpc, fsent>>
    /\ UNCHANGED busVars
    /\ UNCHANGED otherThanFlow

\* After the notifications, shared/memory hands the envelope to the sync
\* manager; utils/runtime.ts returns
FlowSync ==
    /\ fpc = "notify"
    /\ NotificationsDone(fcall.left)
    /\ fpc' = "idle"
    /\ LET es == SyncOf(busKind, "create", fcall.id)
       IN /\ ftrace' = ftrace \o [i \in 1..Len(es) |->
                           [step |-> "envelope", id |-> fcall.id, h |-> 0]]
          /\ fsent' = fsent \cup {es[i].memory : i \in 1..Len(es)}
    /\ UNCHANGED <<fcommitted, ftx, fwrap, fcall, fseen>>
    /\ UNCHANGED busVars
    /\ UNCHANGED otherThanFlow

FlowNext ==
    \/ \E kind \in BusKinds : BusConstruct(kind) /\ UNCHANGED syncVars
    \/ \E h \in Handlers :
          /\ h = Len(subs["note"].cbs) + 1
          /\ BusSubscribe("note", h) /\ UNCHANGED syncVars
    \/ \E op \in {"begin", "commit", "rollback"} : FlowTx(op)
    \/ \E id \in MemIds, fails \in BOOLEAN : FlowCreate(id, fails)
    \/ FlowNotify
    \/ FlowSync

SpecFlow == Init /\ [][FlowNext]_vars

\* C32: in the steps of a createMemory of the wrapper, a notification or an
\* envelope comes only after the store write returned without raising, the
\* envelope comes only after every callback due for the mutation was
\* awaited, and a write that raised is followed by no step at all.
C32_WriteThenNotifyThenSync ==
    LET n == Len(ftrace)
        notified == SelectSeq(ftrace, LAMBDA e : e.step = "notify")
    IN
    /\ \A i \in 1..n :
          ftrace[i].step \in {"notify", "envelope"}
             => i > 1 /\ ftrace[1].step = "written" /\ ftrace[1].id = ftrace[i].id
    /\ \A i \in 1..n :
          ftrace[i].step = "envelope"
             => /\ i = n
                /\ Len(notified) = Len(fcall.due)
                /\ \A j \in 1..Len(notified) : notified[j].h = fcall.due[j].h
    /\ (n > 0 /\ ftrace[1].step = "raised") => n = 1 /\ fpc = "idle"

\* A createMemory awaited two callbacks and then handed over its envelope
C32_Witness ==
    /\ Len(ftrace) >= 4
    /\ ftrace[Len(ftrace)].step = "envelope"

\* C33: whenever no transaction is open, every memory that a local
\* subscriber or the sync manager was handed is persisted.
C33_ObservedIsPersisted ==
    (ftx = <<>> /\ fpc = "idle") => (fseen \cup fsent) \subseteq fcommitted


\* C34: a createMemory of the wrapper that inserted no row, because a memory
\* of the same id was stored already, invokes no subscriber callback and
\* hands no envelope to the sync manager.
C34_NoOpCreateIsSilent ==
    [][\A id \in MemIds, type \in ContentTypes, bad \in {0} \cup Handlers :
          (BusCreate(id, type, bad) /\ getMemoryById(table, id) # NoMem)
             => busLog'.invoked = <<>> /\ busLog'.envelopes = <<>>]_vars


\* C35: a write of a caller that began no transaction goes through the write
\* queue and its statement runs with no transaction open on the engine's
\* connection, so that no other caller's rollback can undo it.
C35_WriteOutsideOthersTransaction ==
    [][\A c \in EngineCallers \ {SeqCaller} :
          (cpc[c] # "write_wait" /\ cpc'[c] = "write_wait")
             => ccall'[c].viaQueue /\ ~ session.open]_vars


(* ------------------- TreasuryAgent.handleSwapRequest ------------------- *)
\* The handler holds the lease of `swap-${fromToken}-${toToken}` and starts
\* executeSwapWithRoute, racing it against the SWAP timer
SwapStart(a) ==
    /\ pc[a] = "idle"
    /\ held[a] # NoLease
    /\ hswap[a] = "idle"
    /\ <<a, held[a].key>> \notin running
    /\ hswap' = [hswap EXCEPT ![a] = "racing"]
    /\ running' = running \cup {<<a, held[a].key>>}
    /\ UNCHANGED otherThanSwap

\* A swap operation completes, whether or not its handler still waits for it
SwapFinish(a, k) ==
    /\ <<a, k>> \in running
    /\ running' = running \ {<<a, k>>}
    /\ hswap' = [hswap EXCEPT ![a] = IF @ = "racing" THEN "done" ELSE @]
    /\ UNCHANGED otherThanSwap

\* The timer wins the race: 'Swap execution timeout' is thrown into the
\* finally block and the operation is left running
SwapTimeout(a) ==
    /\ hswap[a] = "racing"
    /\ hswap' = [hswap EXCEPT ![a] = "done"]
    /\ UNCHANGED running
    /\ UNCHANGED otherThanSwap

\* The handler returns or rethrows after the finally block released the lease
SwapReturn(a) ==
    /\ hswap[a] = "done"
    /\ held[a] = NoLease
    /\ hswap' = [hswap EXCEPT ![a] = "idle"]
    /\ UNCHANGED running
    /\ UNCHANGED otherThanSwap

SwapNext ==
    \/ Tick
    \/ \E a \in Agents, k \in Keys, ttl \in Ttls :
          hswap[a] = "idle" /\ held[a] = NoLease /\ AcquireStart(a, k, ttl)
    \/ \E a \in Agents : AcquireCheck(a)
    \/ \E a \in Agents : AcquireInsert(a)
    \/ \E a \in Agents : SwapStart(a)
    \/ \E a \in Agents, k \in Keys : SwapFinish(a, k)
    \/ \E a \in Agents : SwapTimeout(a)
    \/ \E a \in Agents : hswap[a] = "done" /\ ReleaseLock(a)
    \/ \E a \in Agents : SwapReturn(a)

SpecSwap == Init /\ [][SwapNext]_vars

TransferCopies == MemIds \X (1..NumCopies)

\* How the handler's way past the skip test can end: the transfer is sent,
\* the handler gives up before sending and returns (no keypair, text not
\* parsed, balance too low, transfer failed), or it throws into its outer
\* catch because it got no lease
TransferOutcomes == {"sent", "failed", "nolock"}

\* handleTransfer(content), content being copy c of the memory c[1].  It
\* returns at once when content.lastProcessedMessageId equals content.id;
\* after a transfer that was sent it writes the id to that field of content.
HandleTransfer(c, outcome) ==
    LET id == c[1]
    IN
    /\ IF tmark[c] = id
       THEN /\ tlast' = [id |-> id, copy |-> c[2], result |-> "skipped"]
            /\ UNCHANGED <<tmark, tsent>>
       ELSE IF outcome = "sent"
       THEN /\ tsent[id] < MaxTransfers
            /\ tsent' = [tsent EXCEPT ![id] = @ + 1]
            /\ tmark' = [tmark EXCEPT ![c] = id]
            /\ tlast' = [id |-> id, copy |-> c[2], result |-> "sent"]
       ELSE /\ tlast' = [id |-> id, copy |-> c[2], result |-> outcome]
            /\ UNCHANGED <<tmark, tsent>>
    /\ UNCHANGED otherThanTransfer

TransferNext ==
    \E c \in TransferCopies, outcome \in TransferOutcomes : HandleTransfer(c, outcome)

SpecTransfer == Init /\ [][TransferNext]_vars

C38_CountersAgree ==
    AllIdle =>
        /\ engine.isInTransaction = (engine.transactionLevel > 0)
        /\ engine.savepointCounter =
              IF engine.transactionLevel > 0 THEN engine.transactionLevel - 1 ELSE 0


\* C39: in beginTransaction(); try { write; commitTransaction() } catch {
\* rollbackTransaction() } on the engine, when the write fails with a
\* storage error and returns it to the caller, a transaction is still in
\* progress for the rollbackTransaction of the catch block to roll back, so
\* that this call does not raise 'No transaction in progress'.
C39_CatchRollbackDoesNotRaise ==
    [][LET k == ccall[SeqCaller]
       IN (/\ cpc[SeqCaller] = "stmt_wait" /\ cpc'[SeqCaller] = "idle"
           /\ k.api = "engine" /\ k.op \in WriteOps /\ k.from = 1)
          => engine'.transactionLevel > 0]_vars


(* ------------- MemoryManager.createMemory, calls that overlap ---------- *)
\* createMemory up to the return of `await databaseAdapter.getMemoryById`
CreateCheck(c, id) ==
    /\ ocall[c].pc = "idle"
    /\ ocall' = [ocall EXCEPT ![c] =
                    [pc |-> "checked", id |-> id,
                     existed |-> AdapterRow(table, id) # NoMem, ret |-> "none"]]
    /\ UNCHANGED storeVars
    /\ UNCHANGED <<lockVars, txVars, rowVars, busVars, syncVars>>
    /\ UNCHANGED <<versionVars, embedVars, flowVars, swapVars, transferVars>>

\* The rest of createMemory: it returns when the check found the id, else
\* it awaits databaseAdapter.createMemory, whose INSERT the table's
\* PRIMARY KEY (id) rejects when a row of the id has been stored since; the
\* rejection is not caught.
CreateInsert(c) ==
    LET k == ocall[c]
        res == IF k.existed THEN [ok |-> TRUE, rows |-> table]
               ELSE createMemoryInternal(table, BusMem(k.id))
    IN
    /\ k.pc = "checked"
    /\ table' = res.rows
    /\ ocall' = [ocall EXCEPT ![c] =
                    [k EXCEPT !.pc = "idle", !.ret = IF res.ok THEN "ok" ELSE "raised"]]
    /\ UNCHANGED <<firstMem, lastOp>>
    /\ UNCHANGED <<lockVars, txVars, rowVars, busVars, syncVars>>
    /\ UNCHANGED <<versionVars, embedVars, flowVars, swapVars, transferVars>>

OverlapNext ==
    \/ \E c \in Callers, id \in MemIds : CreateCheck(c, id)
    \/ \E c \in Callers : CreateInsert(c)

SpecOverlap == Init /\ [][OverlapNext]_vars

\* C40: createMemory calls of one id that overlap, each running its
\* existence check before any of them inserts, all return without error,
\* and the table holds exactly one row of the id afterwards.
C40_OverlappingCreate ==
    /\ \A c \in Callers : ocall[c].ret # "raised"
    /\ \A id \in MemIds :
          (\E c \in Callers : ocall[c].ret = "ok" /\ ocall[c].id = id /\ ocall[c].pc = "idle")
             => Cardinality(RowsWithId(id)) = 1

====
